---------------------------- MODULE Spec2Model ----------------------------
(***************************************************************************)
(* Model of the small object allocator (small/small.c): the table of size  *)
(* class pools, the pool groups with waste driven activation, the delayed  *)
(* free / garbage collection state machine and the statistics.             *)
(*                                                                         *)
(* Pools are numbered 0 .. small_mempool_cache_size - 1 in the order of    *)
(* the array small_mempool_cache, groups 0 .. small_mempool_groups_size-1. *)
(* A pointer to a pool or to a group is its index, NULL is -1.  A 32 bit   *)
(* mask is the set of the positions of its 1 bits.  Sizes are bytes on a   *)
(* scaled-down slab cache (see Caches).                                    *)
(***************************************************************************)
EXTENDS Integers, Sequences, FiniteSets, Bags, TLC

\* ------------------------------------------------------------------------
\* Bounds of the model
\* ------------------------------------------------------------------------
\* Largest number of objects the caller holds or has queued at a time.
MaxObjs == 2
\* Widths in bits of the scaled-down words that unsigned arithmetic wraps
\* on: uint32_t (object sizes) and size_t (waste, statistics).
Uint32Bits == 6
SizeBits == 8

\* ------------------------------------------------------------------------
\* Program constants
\* ------------------------------------------------------------------------
POOL_PER_GROUP_MAX == 32
SMALL_MEMPOOL_MAX == 1024
BATCH == 100
NULL == -1
\* check_expectation of test/small_class.c
test_sizes == 1024
test_classes == 1024

SMALL_FREE == "SMALL_FREE"
SMALL_DELAYED_FREE == "SMALL_DELAYED_FREE"
SMALL_COLLECT_GARBAGE == "SMALL_COLLECT_GARBAGE"

\* ------------------------------------------------------------------------
\* Helpers for C arithmetic
\* ------------------------------------------------------------------------
RECURSIVE Pow2(_)
Pow2(n) == IF n = 0 THEN 1 ELSE 2 * Pow2(n - 1)

\* a - b on an unsigned word of the given width
USub(a, b, bits) == ((a % Pow2(bits)) - (b % Pow2(bits)) + Pow2(bits)) % Pow2(bits)

\* a + b on an unsigned word of the given width
UAdd(a, b, bits) == (a + b) % Pow2(bits)

SetMin(S) == CHOOSE x \in S : \A y \in S : x <= y

\* __builtin_ffs: one plus the index of the least significant 1 bit, or 0.
builtin_ffs(mask) == IF mask = {} THEN 0 ELSE SetMin(mask) + 1

\* x >> n
ShiftRight(x, n) == x \div Pow2(n)

\* small_class_fls: index of the most significant 1 bit, 0 for 0.
RECURSIVE small_class_fls(_)
small_class_fls(x) == IF x <= 1 THEN 0 ELSE 1 + small_class_fls(x \div 2)

\* ------------------------------------------------------------------------
\* small_class: size <-> class index
\* ------------------------------------------------------------------------
\* small_class_create that counts no bits of the granularity as ignored.
class_create_no_ignored_bits(granularity, effective_bits, min_alloc) ==
    [granularity       |-> granularity,
     ignore_bits_count |-> 0,
     effective_bits    |-> effective_bits,
     effective_size    |-> Pow2(effective_bits),
     effective_mask    |-> Pow2(effective_bits) - 1,
     size_shift        |-> min_alloc - granularity,
     size_shift_plus_1 |-> min_alloc - granularity + 1]

\* small_class_create for a factor that gives effective_bits.
small_class_create(granularity, effective_bits, min_alloc) ==
    [granularity       |-> granularity,
     ignore_bits_count |-> small_class_fls(granularity),
     effective_bits    |-> effective_bits,
     effective_size    |-> Pow2(effective_bits),
     effective_mask    |-> Pow2(effective_bits) - 1,
     size_shift        |-> min_alloc - granularity,
     size_shift_plus_1 |-> min_alloc - granularity + 1]

\* small_class_calc_size_by_offset without the increment of the class.
size_by_offset_from_zero(sc, cls) ==
    LET c           == cls
        linear_part == c % sc.effective_size
        log2        == ShiftRight(c, sc.effective_bits)
    IN  IF log2 # 0
        THEN sc.size_shift +
             (linear_part + sc.effective_size) * Pow2(log2 - 1)
                                               * Pow2(sc.ignore_bits_count)
        ELSE sc.size_shift + linear_part * Pow2(sc.ignore_bits_count)

small_class_calc_size_by_offset(sc, cls) ==
    LET c           == cls + 1
        linear_part == c % sc.effective_size
        log2        == ShiftRight(c, sc.effective_bits)
    IN  IF log2 # 0
        THEN sc.size_shift +
             (linear_part + sc.effective_size) * Pow2(log2 - 1)
                                               * Pow2(sc.ignore_bits_count)
        ELSE sc.size_shift + linear_part * Pow2(sc.ignore_bits_count)

\* small_class_calc_offset_by_size that keeps one effective bit too many
\* in the logarithmic part.
offset_by_size_wide_log2(sc, size) ==
    LET checked0 == IF size < sc.size_shift_plus_1
                    THEN 0 ELSE size - sc.size_shift_plus_1
        checked1 == ShiftRight(checked0, sc.ignore_bits_count)
        fls      == small_class_fls(checked1)
        log2     == IF fls > sc.effective_bits + 1
                    THEN fls - sc.effective_bits - 1 ELSE 0
    IN  ShiftRight(checked1, log2) + log2 * sc.effective_size

\* small_class_calc_offset_by_size that does not decrement the size.
offset_by_size_no_decrement(sc, size) ==
    LET checked0 == IF size < sc.size_shift
                    THEN 0 ELSE size - sc.size_shift
        checked1 == ShiftRight(checked0, sc.ignore_bits_count)
        fls      == small_class_fls(checked1)
        log2     == IF fls > sc.effective_bits
                    THEN fls - sc.effective_bits ELSE 0
    IN  ShiftRight(checked1, log2) + log2 * sc.effective_size

small_class_calc_offset_by_size(sc, size) ==
    LET checked0 == IF size < sc.size_shift_plus_1
                    THEN 0 ELSE size - sc.size_shift_plus_1
        checked1 == ShiftRight(checked0, sc.ignore_bits_count)
        fls      == small_class_fls(checked1)
        log2     == IF fls > sc.effective_bits
                    THEN fls - sc.effective_bits ELSE 0
    IN  ShiftRight(checked1, log2) + log2 * sc.effective_size

\* The names the test calls the two functions by.
class_by_size(sc, size) == small_class_calc_offset_by_size(sc, size)
size_by_class(sc, cls) == small_class_calc_size_by_offset(sc, cls)

\* ------------------------------------------------------------------------
\* slab cache and mempool interface
\* ------------------------------------------------------------------------
slab_order_size(cache, order) == cache.order0_size * Pow2(order)

\* At least 4 objects of the largest size fit in a slab.
mempool_objsize_max(slab_size) == slab_size \div 4


\* A pool as mempool_create and small_mempool_create leave it: struct
\* small_mempool with the fields of its struct mempool that the allocator
\* reads (objsize, slab_order, the statistics' used bytes, the delayed list
\* and the link of the allocator's delayed list).
NewPool(objsize, slab_order, prevsize) ==
    [objsize               |-> objsize,
     slab_order            |-> slab_order,
     used                  |-> 0,
     delayed               |-> << >>,
     link                  |-> NULL,
     objsize_min           |-> prevsize + 1,
     group                 |-> NULL,
     used_pool             |-> NULL,
     appropriate_pool_mask |-> {},
     waste                 |-> 0]

\* ------------------------------------------------------------------------
\* Pool groups
\* ------------------------------------------------------------------------
\* small_mempool_activate with a loop that starts at the activated pool: the
\* smaller peers keep their donor.
activate_only_itself(alloc, small_mempool) ==
    LET g      == alloc.small_mempool_cache[small_mempool].group
        group  == alloc.small_mempool_groups[g]
        idx    == small_mempool - group.first
        mask   == group.active_pool_mask \cup {idx}
        cache  == alloc.small_mempool_cache
        used_idx(pool) ==
            builtin_ffs(mask \cap cache[pool].appropriate_pool_mask) - 1
    IN  IF idx \in group.active_pool_mask
        THEN [alloc EXCEPT !.failure = "assert:small_mempool_activate"]
        ELSE IF \E pool \in small_mempool .. small_mempool :
                    \/ used_idx(pool) < 0
                    \/ group.first + used_idx(pool) < pool
        THEN [alloc EXCEPT !.failure = "assert:small_mempool_activate"]
        ELSE [alloc EXCEPT
                !.small_mempool_groups[g].active_pool_mask = mask,
                !.small_mempool_cache =
                    [pool \in DOMAIN cache |->
                        IF pool \in small_mempool .. small_mempool
                        THEN [cache[pool] EXCEPT
                                !.used_pool = group.first + used_idx(pool)]
                        ELSE cache[pool]]]

\* small_mempool_activate with `=` for `|=`: the other bits are lost.
activate_assigns_mask(alloc, small_mempool) ==
    LET g      == alloc.small_mempool_cache[small_mempool].group
        group  == alloc.small_mempool_groups[g]
        idx    == small_mempool - group.first
        mask   == {idx}
        cache  == alloc.small_mempool_cache
        used_idx(pool) ==
            builtin_ffs(mask \cap cache[pool].appropriate_pool_mask) - 1
    IN  IF idx \in group.active_pool_mask
        THEN [alloc EXCEPT !.failure = "assert:small_mempool_activate"]
        ELSE IF \E pool \in group.first .. small_mempool :
                    \/ used_idx(pool) < 0
                    \/ group.first + used_idx(pool) < pool
        THEN [alloc EXCEPT !.failure = "assert:small_mempool_activate"]
        ELSE [alloc EXCEPT
                !.small_mempool_groups[g].active_pool_mask = mask,
                !.small_mempool_cache =
                    [pool \in DOMAIN cache |->
                        IF pool \in group.first .. small_mempool
                        THEN [cache[pool] EXCEPT
                                !.used_pool = group.first + used_idx(pool)]
                        ELSE cache[pool]]]

\* small_mempool_activate with `pool < small_mempool` for `<=`: the
\* activated pool keeps borrowing.
activate_skips_itself(alloc, small_mempool) ==
    LET g      == alloc.small_mempool_cache[small_mempool].group
        group  == alloc.small_mempool_groups[g]
        idx    == small_mempool - group.first
        mask   == group.active_pool_mask \cup {idx}
        cache  == alloc.small_mempool_cache
        used_idx(pool) ==
            builtin_ffs(mask \cap cache[pool].appropriate_pool_mask) - 1
    IN  IF idx \in group.active_pool_mask
        THEN [alloc EXCEPT !.failure = "assert:small_mempool_activate"]
        ELSE IF \E pool \in group.first .. small_mempool - 1 :
                    \/ used_idx(pool) < 0
                    \/ group.first + used_idx(pool) < pool
        THEN [alloc EXCEPT !.failure = "assert:small_mempool_activate"]
        ELSE [alloc EXCEPT
                !.small_mempool_groups[g].active_pool_mask = mask,
                !.small_mempool_cache =
                    [pool \in DOMAIN cache |->
                        IF pool \in group.first .. small_mempool - 1
                        THEN [cache[pool] EXCEPT
                                !.used_pool = group.first + used_idx(pool)]
                        ELSE cache[pool]]]

small_mempool_activate(alloc, small_mempool) ==
    LET g      == alloc.small_mempool_cache[small_mempool].group
        group  == alloc.small_mempool_groups[g]
        idx    == small_mempool - group.first
        mask   == group.active_pool_mask \cup {idx}
        cache  == alloc.small_mempool_cache
        used_idx(pool) ==
            builtin_ffs(mask \cap cache[pool].appropriate_pool_mask) - 1
    IN  IF idx \in group.active_pool_mask
        THEN [alloc EXCEPT !.failure = "assert:small_mempool_activate"]
        ELSE IF \E pool \in group.first .. small_mempool :
                    \/ used_idx(pool) < 0
                    \/ group.first + used_idx(pool) < pool
        THEN [alloc EXCEPT !.failure = "assert:small_mempool_activate"]
        ELSE [alloc EXCEPT
                !.small_mempool_groups[g].active_pool_mask = mask,
                !.small_mempool_cache =
                    [pool \in DOMAIN cache |->
                        IF pool \in group.first .. small_mempool
                        THEN [cache[pool] EXCEPT
                                !.used_pool = group.first + used_idx(pool)]
                        ELSE cache[pool]]]

RECURSIVE group_last_pool_loop(_, _, _)
group_last_pool_loop(last_in_group, last, pool_count) ==
    IF last_in_group < last /\ pool_count < POOL_PER_GROUP_MAX - 1
    THEN group_last_pool_loop(last_in_group + 1, last, pool_count + 1)
    ELSE last_in_group

small_mempool_group_last_pool(first, last) ==
    group_last_pool_loop(first, last, 0)

\* The mask a pool of group index idx gets from small_mempool_set_mask.
small_mempool_set_mask(idx) == idx .. (POOL_PER_GROUP_MAX - 1)

\* small_mempool_create_group that activates the first pool of the group.
create_group_activates_first(alloc, first, last) ==
    LET g     == alloc.small_mempool_groups_size
        cache == alloc.small_mempool_cache
        group == [first            |-> first,
                  last             |-> last,
                  active_pool_mask |-> {},
                  waste_max        |->
                      slab_order_size(alloc.cache, cache[last].slab_order)
                          \div 4]
        a1    == [alloc EXCEPT
                    !.small_mempool_groups = @ @@ (g :> group),
                    !.small_mempool_groups_size = g + 1,
                    !.small_mempool_cache =
                       [pool \in DOMAIN cache |->
                          IF pool \in first .. last
                          THEN [cache[pool] EXCEPT
                                  !.group = g,
                                  !.appropriate_pool_mask =
                                      small_mempool_set_mask(pool - first)]
                          ELSE cache[pool]]]
    IN  small_mempool_activate(a1, first)

small_mempool_create_group(alloc, first, last) ==
    LET g     == alloc.small_mempool_groups_size
        cache == alloc.small_mempool_cache
        group == [first            |-> first,
                  last             |-> last,
                  active_pool_mask |-> {},
                  waste_max        |->
                      slab_order_size(alloc.cache, cache[last].slab_order)
                          \div 4]
        a1    == [alloc EXCEPT
                    !.small_mempool_groups = @ @@ (g :> group),
                    !.small_mempool_groups_size = g + 1,
                    !.small_mempool_cache =
                       [pool \in DOMAIN cache |->
                          IF pool \in first .. last
                          THEN [cache[pool] EXCEPT
                                  !.group = g,
                                  !.appropriate_pool_mask =
                                      small_mempool_set_mask(pool - first)]
                          ELSE cache[pool]]]
    IN  small_mempool_activate(a1, last)

RECURSIVE small_mempool_create_groups(_, _, _)
small_mempool_create_groups(alloc, first, last) ==
    IF first <= last
    THEN LET last_in_group == small_mempool_group_last_pool(first, last)
         IN  small_mempool_create_groups(
                 small_mempool_create_group(alloc, first, last_in_group),
                 last_in_group + 1, last)
    ELSE alloc

small_mempool_search(alloc, size) ==
    IF size > alloc.objsize_max
    THEN NULL
    ELSE small_class_calc_offset_by_size(alloc.small_class, size)

\* The loop of small_mempool_create; slab_order[cls] is the slab order that
\* mempool_create gives the pool of class cls.  The state of the loop is the
\* allocator with the locals objsize, slab_order_cur and cur_order_pool.
small_mempool_create_cond(st) ==
    /\ st.objsize < st.alloc.objsize_max
    /\ st.alloc.small_mempool_cache_size < SMALL_MEMPOOL_MAX

\* One iteration of the loop.
small_mempool_create_body(st, slab_order) ==
    LET alloc    == st.alloc
        prevsize == st.objsize
        n        == alloc.small_mempool_cache_size
        size     == small_class_calc_size_by_offset(alloc.small_class, n)
        objsize  == IF size > alloc.objsize_max
                    THEN alloc.objsize_max ELSE size
        pool     == NewPool(objsize, slab_order[n], prevsize)
        a1       == [alloc EXCEPT !.small_mempool_cache = @ @@ (n :> pool)]
        cur1     == IF st.slab_order_cur = 0
                    THEN pool.slab_order ELSE st.slab_order_cur
        next     == pool.slab_order
        a2       == IF next # cur1
                    THEN small_mempool_create_groups(a1, st.cur_order_pool,
                                                     n - 1)
                    ELSE a1
        cop2     == IF next # cur1 THEN n ELSE st.cur_order_pool
        cur2     == IF next # cur1 THEN next ELSE cur1
        a3       == IF objsize = alloc.objsize_max
                    THEN small_mempool_create_groups(a2, cop2, n)
                    ELSE a2
    IN  [alloc          |-> [a3 EXCEPT !.small_mempool_cache_size = n + 1],
         objsize        |-> objsize,
         slab_order_cur |-> cur2,
         cur_order_pool |-> cop2]

\* At most n iterations of the loop, the first half and then the rest.
RECURSIVE small_mempool_create_iterate(_, _, _)
small_mempool_create_iterate(st, slab_order, n) ==
    IF n = 0 \/ ~small_mempool_create_cond(st)
    THEN st
    ELSE IF n = 1
    THEN small_mempool_create_body(st, slab_order)
    ELSE small_mempool_create_iterate(
             small_mempool_create_iterate(st, slab_order, n \div 2),
             slab_order, n - (n \div 2))

\* The loop ends after at most SMALL_MEMPOOL_MAX iterations.
small_mempool_create_loop(alloc, slab_order, objsize0, slab_order_cur0, cur_order_pool) ==
    LET st == small_mempool_create_iterate(
                  [alloc          |-> alloc,
                   objsize        |-> objsize0,
                   slab_order_cur |-> slab_order_cur0,
                   cur_order_pool |-> cur_order_pool],
                  slab_order, SMALL_MEMPOOL_MAX)
    IN  [st.alloc EXCEPT !.objsize_max = st.objsize]

small_mempool_create(alloc, slab_order) ==
    small_mempool_create_loop(
        [alloc EXCEPT !.small_mempool_groups_size = 0,
                      !.small_mempool_cache_size = 0],
        slab_order, 0, 0, 0)

\* small_align(size, alignment), alignment a power of two
small_align(size, alignment) ==
    ((size + alignment - 1) \div alignment) * alignment

\* small_alloc_create up to the call of small_mempool_create, on the slab
\* cache `cache`; effective_bits stands for the factor (see
\* small_class_create).  The lists and the mode, which the code sets after
\* that call, are set here: small_mempool_create does not read them.
small_alloc_init(cache, objsize_min, granularity, effective_bits) ==
    LET min0 == small_align(objsize_min, granularity)
        max0 == small_align(
                    mempool_objsize_max(
                        slab_order_size(cache, cache.order_max)),
                    granularity)
    IN  [cache                     |-> cache,
         small_class               |->
             small_class_create(granularity, effective_bits, min0),
         objsize_max               |-> max0,
         small_mempool_cache       |-> << >>,
         small_mempool_cache_size  |-> 0,
         small_mempool_groups      |-> << >>,
         small_mempool_groups_size |-> 0,
         delayed                   |-> NULL,
         delayed_large             |-> << >>,
         free_mode                 |-> SMALL_FREE,
         failure                   |-> "",
         undefined                 |-> FALSE]

\* small_alloc_create; mempool_create gives the pool of class cls the slab
\* order slab_order[cls].
small_alloc_create(cache, slab_order, objsize_min, granularity, effective_bits) ==
    small_mempool_create(
        small_alloc_init(cache, objsize_min, granularity, effective_bits),
        slab_order)

\* ------------------------------------------------------------------------
\* lifo.h: the intrusive lists
\* ------------------------------------------------------------------------
\* alloc->delayed is a list of pools linked through pool->link.
lifo_push_pool(alloc, pool) ==
    [alloc EXCEPT !.small_mempool_cache[pool].link = alloc.delayed,
                  !.delayed = pool]

\* The pools reachable from the head of alloc->delayed.
RECURSIVE lifo_reach(_, _, _)
lifo_reach(alloc, pool, seen) ==
    IF pool = NULL \/ pool \in seen
    THEN seen
    ELSE lifo_reach(alloc, alloc.small_mempool_cache[pool].link,
                    seen \cup {pool})

\* lifo_pop leaves the popped element's link as it is.  The link of a pool
\* that is no longer reachable from the head is dead (the next push of the
\* pool overwrites it before any read), so the model resets it.
lifo_pop_pool(alloc) ==
    IF alloc.delayed = NULL
    THEN alloc
    ELSE LET elem == alloc.delayed
             a1   == [alloc EXCEPT
                        !.delayed = alloc.small_mempool_cache[elem].link]
         IN  IF elem \in lifo_reach(a1, a1.delayed, {})
             THEN a1
             ELSE [a1 EXCEPT !.small_mempool_cache[elem].link = NULL]

\* ------------------------------------------------------------------------
\* Pointers, slabs and mempools
\* ------------------------------------------------------------------------
\* A pointer returned by smalloc: the size it was asked with, the mempool
\* whose slab holds it (NULL for a large slab) and its offset in that slab,
\* in units of the order 0 slab size.
Ptr(size, mempool, off) == [size |-> size, mempool |-> mempool, off |-> off]

\* The NULL pointer.
NullPtr == Ptr(0, NULL, NULL)

\* slab_from_ptr(ptr, mask) for the mask of a pool of the given slab order:
\* the offset of the address ptr & mask from the base of ptr's slab.
slab_from_ptr(ptr, slab_order) == ptr.off - (ptr.off % Pow2(slab_order))

\* What slab->mempool can read as: the owner of the slab when the address
\* is the slab's base; otherwise the address lies inside the slab's object
\* area and the read yields any pool, or faults (NULL).
slab_mempool(alloc, ptr, slab) ==
    IF slab = 0
    THEN {ptr.mempool}
    ELSE DOMAIN alloc.small_mempool_cache \cup {NULL}

\* mempool_free_slab(mempool, slab, ptr): the statistics of the mempool.
mempool_free_slab(alloc, mempool) ==
    [alloc EXCEPT !.small_mempool_cache[mempool].used =
        USub(@, alloc.small_mempool_cache[mempool].objsize, SizeBits)]

\* The waste reconciliation and the release shared by smfree and the
\* garbage collector, for an object of the nominal pool and the mempool read
\* from the header of the slab.  When slab is not the base of the object's
\* slab the header was read from the object area: the behaviour is
\* undefined, the model follows it to the end of the call and then stops.
release(alloc, pool, mempool, slab) ==
    LET cache == alloc.small_mempool_cache
        diff  == USub(cache[mempool].objsize, cache[pool].objsize,
                      Uint32Bits)
        a1    == [alloc EXCEPT !.small_mempool_cache[pool].waste =
                                   USub(@, diff, SizeBits)]
        a2    == mempool_free_slab(a1, mempool)
    IN  IF slab = 0
        THEN a2
        ELSE [a2 EXCEPT !.undefined = TRUE]

\* A large loop without the BATCH limit: it pops until the list is empty.
collect_large_unbounded(alloc, i) ==
    [alloc EXCEPT !.delayed_large = << >>]

\* ------------------------------------------------------------------------
\* Garbage collection
\* ------------------------------------------------------------------------
\* The loop over the large delayed objects from iteration i on: it pops
\* until BATCH iterations are done or the list is empty.
collect_large(alloc, i) ==
    LET n == IF Len(alloc.delayed_large) < BATCH - i
             THEN Len(alloc.delayed_large) ELSE BATCH - i
    IN  IF i < BATCH
        THEN [alloc EXCEPT !.delayed_large = SubSeq(@, n + 1, Len(@))]
        ELSE alloc

\* An iteration that takes the oldest object of the pool's delayed list
\* instead of the newest.
collect_regular_oldest_first(st) ==
    IF st.done \/ st.i >= BATCH \/ st.alloc.failure # ""
    THEN {[st EXCEPT !.done = TRUE]}
    ELSE LET alloc == st.alloc
             pool  == st.pool
             cache == alloc.small_mempool_cache
         IN
         IF cache[pool].delayed = << >>
         THEN LET a1 == lifo_pop_pool(alloc) IN
              {[alloc |-> a1, pool |-> a1.delayed, i |-> st.i + 1,
                done |-> a1.delayed = NULL]}
         ELSE LET item == cache[pool].delayed[Len(cache[pool].delayed)]
                  a1   == [alloc EXCEPT
                            !.small_mempool_cache[pool].delayed =
                                SubSeq(@, 1, Len(@) - 1)]
                  slab == slab_from_ptr(item, cache[pool].slab_order)
              IN  {IF mempool = NULL
                   THEN [alloc |-> [a1 EXCEPT !.failure =
                                        "fault:small_collect_garbage"],
                         pool |-> pool, i |-> st.i + 1, done |-> TRUE]
                   ELSE [alloc |-> release(a1, pool, mempool, slab),
                         pool |-> pool, i |-> st.i + 1, done |-> FALSE]
                   : mempool \in slab_mempool(alloc, item, slab)}

\* One iteration of the loop over the regular delayed objects, from the
\* loop state st = [alloc, pool, i, done]: the loop states it can lead to.
\* The loop is done after BATCH iterations, at the break, and when the
\* program stops.
collect_regular_body(st) ==
    IF st.done \/ st.i >= BATCH \/ st.alloc.failure # ""
    THEN {[st EXCEPT !.done = TRUE]}
    ELSE LET alloc == st.alloc
             pool  == st.pool
             cache == alloc.small_mempool_cache
         IN
         IF cache[pool].delayed = << >>
         THEN LET a1 == lifo_pop_pool(alloc) IN
              {[alloc |-> a1, pool |-> a1.delayed, i |-> st.i + 1,
                done |-> a1.delayed = NULL]}
         ELSE LET item == Head(cache[pool].delayed)
                  a1   == [alloc EXCEPT
                            !.small_mempool_cache[pool].delayed = Tail(@)]
                  slab == slab_from_ptr(item, cache[pool].slab_order)
              IN  {IF mempool = NULL
                   THEN [alloc |-> [a1 EXCEPT !.failure =
                                        "fault:small_collect_garbage"],
                         pool |-> pool, i |-> st.i + 1, done |-> TRUE]
                   ELSE [alloc |-> release(a1, pool, mempool, slab),
                         pool |-> pool, i |-> st.i + 1, done |-> FALSE]
                   : mempool \in slab_mempool(alloc, item, slab)}

\* At most n iterations from each of the loop states S, the first half and
\* then the rest.
RECURSIVE collect_regular_iterate(_, _)
collect_regular_iterate(S, n) ==
    UNION {IF n = 0 \/ T = {}
           THEN T
           ELSE IF n = 1
           THEN UNION {collect_regular_body(st) : st \in T}
           ELSE collect_regular_iterate(
                    collect_regular_iterate(T, n \div 2), n - (n \div 2)) :
           T \in {S}}

\* The loop over the regular delayed objects; the set of the states it can
\* end in.
collect_regular(alloc, pool, i) ==
    {st.alloc : st \in collect_regular_iterate(
                           {[alloc |-> alloc, pool |-> pool, i |-> i,
                             done |-> FALSE]}, BATCH)}

\* A step that goes on to the regular objects after the large ones instead
\* of returning.
gc_drains_both_lists(alloc) ==
    IF alloc.free_mode # SMALL_COLLECT_GARBAGE
    THEN {alloc}
    ELSE IF alloc.delayed_large # << >>
    THEN LET a1 == collect_large(alloc, 0)
         IN  IF a1.delayed # NULL
             THEN collect_regular(a1, a1.delayed, 0)
             ELSE {a1}
    ELSE IF alloc.delayed # NULL
    THEN collect_regular(alloc, alloc.delayed, 0)
    ELSE {[alloc EXCEPT !.free_mode = SMALL_FREE]}

\* A step that switches the mode to FREE as soon as it has gone through the
\* regular objects.
gc_frees_mode_early(alloc) ==
    IF alloc.free_mode # SMALL_COLLECT_GARBAGE
    THEN {alloc}
    ELSE IF alloc.delayed_large # << >>
    THEN {collect_large(alloc, 0)}
    ELSE {[a EXCEPT !.free_mode = SMALL_FREE] :
            a \in IF alloc.delayed # NULL
                  THEN collect_regular(alloc, alloc.delayed, 0)
                  ELSE {alloc}}

\* small_collect_garbage(alloc): one step of the garbage collection; the set
\* of the states it can end in.
small_collect_garbage(alloc) ==
    IF alloc.free_mode # SMALL_COLLECT_GARBAGE
    THEN {alloc}
    ELSE IF alloc.delayed_large # << >>
    THEN {collect_large(alloc, 0)}
    ELSE IF alloc.delayed # NULL
    THEN collect_regular(alloc, alloc.delayed, 0)
    ELSE {[alloc EXCEPT !.free_mode = SMALL_FREE]}

\* ------------------------------------------------------------------------
\* Allocation and release
\* ------------------------------------------------------------------------
\* mempool_alloc(pool) for an object of the pool small_mempool: NULL when
\* the slab cache has no memory, else an object somewhere in a slab of the
\* pool.  Only ptr & slab_ptr_mask of small_mempool is ever read from the
\* address, so one offset stands for all that this mask maps to the same
\* address.
mempool_alloc(alloc, mempool, small_mempool, size) ==
    LET cache == alloc.small_mempool_cache IN
    {[alloc |-> alloc, ptr |-> NullPtr]} \cup
    {[alloc |-> [alloc EXCEPT !.small_mempool_cache[mempool].used =
                    UAdd(@, cache[mempool].objsize, SizeBits)],
      ptr   |-> Ptr(size, mempool, off)] :
        off \in {o \in 0 .. Pow2(cache[mempool].slab_order) - 1 :
                    o % Pow2(cache[small_mempool].slab_order) = 0}}

\* slab_get_large(cache, size): NULL or a slab of its own.
slab_get_large(alloc, size) ==
    {[alloc |-> alloc, ptr |-> NullPtr],
     [alloc |-> alloc, ptr |-> Ptr(size, NULL, 0)]}

\* smalloc that counts the waste of an allocation before it looks whether
\* mempool_alloc gave an object.
smalloc_counts_failed(alloc, size) ==
    LET small_mempool == small_mempool_search(alloc, size)
        cache         == alloc.small_mempool_cache
    IN  IF alloc.failure # ""
        THEN {[alloc |-> alloc, ptr |-> NullPtr]}
        ELSE IF small_mempool = NULL
        THEN slab_get_large(alloc, size)
        ELSE IF cache[small_mempool].used_pool = NULL
        THEN {[alloc |-> [alloc EXCEPT !.failure = "fault:smalloc"],
               ptr   |-> NullPtr]}
        ELSE LET used_pool == cache[small_mempool].used_pool IN
             IF size > cache[used_pool].objsize
             THEN {[alloc |-> [alloc EXCEPT !.failure = "assert:smalloc"],
                    ptr   |-> NullPtr]}
             ELSE
             {IF used_pool # small_mempool
              THEN LET waste == UAdd(cache[small_mempool].waste,
                                     USub(cache[used_pool].objsize,
                                          cache[small_mempool].objsize,
                                          Uint32Bits),
                                     SizeBits)
                       a1    == [r.alloc EXCEPT
                                   !.small_mempool_cache[small_mempool].waste
                                       = waste]
                       group == alloc.small_mempool_groups[
                                    cache[small_mempool].group]
                   IN  [alloc |-> IF waste >= group.waste_max
                                  THEN small_mempool_activate(a1,
                                                              small_mempool)
                                  ELSE a1,
                        ptr   |-> r.ptr]
              ELSE r
              : r \in mempool_alloc(alloc, used_pool, small_mempool, size)}

\* The part of smalloc after the garbage collection step.
smalloc_after_gc(alloc, size) ==
    LET small_mempool == small_mempool_search(alloc, size)
        cache         == alloc.small_mempool_cache
    IN  IF alloc.failure # ""
        THEN {[alloc |-> alloc, ptr |-> NullPtr]}
        ELSE IF small_mempool = NULL
        THEN slab_get_large(alloc, size)
        ELSE IF cache[small_mempool].used_pool = NULL
        THEN {[alloc |-> [alloc EXCEPT !.failure = "fault:smalloc"],
               ptr   |-> NullPtr]}
        ELSE LET used_pool == cache[small_mempool].used_pool IN
             IF size > cache[used_pool].objsize
             THEN {[alloc |-> [alloc EXCEPT !.failure = "assert:smalloc"],
                    ptr   |-> NullPtr]}
             ELSE
             {IF r.ptr # NullPtr /\ used_pool # small_mempool
              THEN LET waste == UAdd(cache[small_mempool].waste,
                                     USub(cache[used_pool].objsize,
                                          cache[small_mempool].objsize,
                                          Uint32Bits),
                                     SizeBits)
                       a1    == [r.alloc EXCEPT
                                   !.small_mempool_cache[small_mempool].waste
                                       = waste]
                       group == alloc.small_mempool_groups[
                                    cache[small_mempool].group]
                   IN  [alloc |-> IF waste >= group.waste_max
                                  THEN small_mempool_activate(a1,
                                                              small_mempool)
                                  ELSE a1,
                        ptr   |-> r.ptr]
              ELSE r
              : r \in mempool_alloc(alloc, used_pool, small_mempool, size)}

smalloc(alloc, size) ==
    UNION {smalloc_after_gc(a1, size) : a1 \in small_collect_garbage(alloc)}

\* mempool_find: the assertions hold or the program stops.
mempool_find_ok(alloc, size) ==
    LET small_mempool == small_mempool_search(alloc, size)
    IN  \/ small_mempool = NULL
        \/ /\ size >= alloc.small_mempool_cache[small_mempool].objsize_min
           /\ size <= alloc.small_mempool_cache[small_mempool].objsize

\* smfree that reconciles a large object with the largest pool instead of
\* handing it to slab_put_large.
smfree_large_in_pool(alloc, ptr, size) ==
    LET pool  == small_mempool_search(alloc, size)
        cache == alloc.small_mempool_cache
    IN  IF pool = NULL
        THEN {mempool_free_slab(alloc, alloc.small_mempool_cache_size - 1)}
        ELSE LET slab == slab_from_ptr(ptr, cache[pool].slab_order) IN
             {IF mempool = NULL
              THEN [alloc EXCEPT !.failure = "fault:smfree"]
              ELSE IF cache[pool].waste <
                        USub(cache[mempool].objsize, cache[pool].objsize,
                             Uint32Bits)
              THEN [alloc EXCEPT !.failure = "assert:smfree"]
              ELSE release(alloc, pool, mempool, slab)
              : mempool \in slab_mempool(alloc, ptr, slab)}

smfree(alloc, ptr, size) ==
    LET pool  == small_mempool_search(alloc, size)
        cache == alloc.small_mempool_cache
    IN  IF pool = NULL
        THEN {alloc}
        ELSE LET slab == slab_from_ptr(ptr, cache[pool].slab_order) IN
             {IF mempool = NULL
              THEN [alloc EXCEPT !.failure = "fault:smfree"]
              ELSE IF cache[pool].waste <
                        USub(cache[mempool].objsize, cache[pool].objsize,
                             Uint32Bits)
              THEN [alloc EXCEPT !.failure = "assert:smfree"]
              ELSE release(alloc, pool, mempool, slab)
              : mempool \in slab_mempool(alloc, ptr, slab)}

\* smfree_delayed that runs a step of the garbage collection before it
\* frees the object.
delayed_pumps_gc(alloc, ptr, size) ==
    IF alloc.free_mode = SMALL_DELAYED_FREE /\ ptr # NullPtr
    THEN IF ~mempool_find_ok(alloc, size)
         THEN {[alloc EXCEPT !.failure = "assert:mempool_find"]}
         ELSE LET pool == small_mempool_search(alloc, size) IN
              IF pool = NULL
              THEN {[alloc EXCEPT !.delayed_large = <<ptr>> \o @]}
              ELSE LET a1 == IF alloc.small_mempool_cache[pool].delayed
                                   = << >>
                             THEN lifo_push_pool(alloc, pool)
                             ELSE alloc
                   IN  {[a1 EXCEPT !.small_mempool_cache[pool].delayed =
                                       <<ptr>> \o @]}
    ELSE UNION {smfree(a1, ptr, size) : a1 \in small_collect_garbage(alloc)}

\* smfree_delayed that queues the object whatever the mode is.
delayed_ignores_mode(alloc, ptr, size) ==
    IF ptr # NullPtr
    THEN IF ~mempool_find_ok(alloc, size)
         THEN {[alloc EXCEPT !.failure = "assert:mempool_find"]}
         ELSE LET pool == small_mempool_search(alloc, size) IN
              IF pool = NULL
              THEN {[alloc EXCEPT !.delayed_large = <<ptr>> \o @]}
              ELSE LET a1 == IF alloc.small_mempool_cache[pool].delayed
                                   = << >>
                             THEN lifo_push_pool(alloc, pool)
                             ELSE alloc
                   IN  {[a1 EXCEPT !.small_mempool_cache[pool].delayed =
                                       <<ptr>> \o @]}
    ELSE smfree(alloc, ptr, size)

\* smfree_delayed that pushes the pool on alloc->delayed at every push.
delayed_always_links(alloc, ptr, size) ==
    IF alloc.free_mode = SMALL_DELAYED_FREE /\ ptr # NullPtr
    THEN IF ~mempool_find_ok(alloc, size)
         THEN {[alloc EXCEPT !.failure = "assert:mempool_find"]}
         ELSE LET pool == small_mempool_search(alloc, size) IN
              IF pool = NULL
              THEN {[alloc EXCEPT !.delayed_large = <<ptr>> \o @]}
              ELSE LET a1 == lifo_push_pool(alloc, pool)
                   IN  {[a1 EXCEPT !.small_mempool_cache[pool].delayed =
                                       <<ptr>> \o @]}
    ELSE smfree(alloc, ptr, size)

smfree_delayed(alloc, ptr, size) ==
    IF alloc.free_mode = SMALL_DELAYED_FREE /\ ptr # NullPtr
    THEN IF ~mempool_find_ok(alloc, size)
         THEN {[alloc EXCEPT !.failure = "assert:mempool_find"]}
         ELSE LET pool == small_mempool_search(alloc, size) IN
              IF pool = NULL
              THEN {[alloc EXCEPT !.delayed_large = <<ptr>> \o @]}
              ELSE LET a1 == IF alloc.small_mempool_cache[pool].delayed
                                   = << >>
                             THEN lifo_push_pool(alloc, pool)
                             ELSE alloc
                   IN  {[a1 EXCEPT !.small_mempool_cache[pool].delayed =
                                       <<ptr>> \o @]}
    ELSE smfree(alloc, ptr, size)

\* small_alloc_setopt that ends the collection at once when the option is
\* cleared and nothing is queued.
setopt_finishes_collection(alloc, val) ==
    [alloc EXCEPT !.free_mode =
        IF val THEN SMALL_DELAYED_FREE
        ELSE IF alloc.delayed_large = << >> /\ alloc.delayed = NULL
        THEN SMALL_FREE
        ELSE SMALL_COLLECT_GARBAGE]

\* small_alloc_setopt that leaves FREE mode alone when the option is cleared.
setopt_keeps_free(alloc, val) ==
    [alloc EXCEPT !.free_mode = IF val THEN SMALL_DELAYED_FREE
                                ELSE IF @ = SMALL_FREE THEN SMALL_FREE
                                ELSE SMALL_COLLECT_GARBAGE]

small_alloc_setopt(alloc, val) ==
    [alloc EXCEPT !.free_mode = IF val THEN SMALL_DELAYED_FREE
                                ELSE SMALL_COLLECT_GARBAGE]

\* small_stats with a callback that returns 0: the totals.
RECURSIVE SumUsed(_, _)
SumUsed(alloc, it) ==
    IF it < alloc.small_mempool_cache_size
    THEN UAdd(alloc.small_mempool_cache[it].used, SumUsed(alloc, it + 1),
              SizeBits)
    ELSE 0

small_stats(alloc) == [used |-> SumUsed(alloc, 0)]

\* mempool_stats(pool, &stats): the totals of a pool.  used is the bytes of
\* the objects allocated; total is the bytes of the slabs that hold them,
\* here as many slabs as the used bytes fill.
mempool_stats(alloc, pool) ==
    LET mempool   == alloc.small_mempool_cache[pool]
        slab_size == slab_order_size(alloc.cache, mempool.slab_order)
    IN  [used  |-> mempool.used,
         total |-> ((mempool.used + slab_size - 1) \div slab_size)
                       * slab_size]

\* The totals before the first pool is visited; visited lists the pools the
\* callback was called for, in the order of the calls.
NoTotals == [used |-> 0, total |-> 0, visited |-> << >>]

\* small_stats that takes the totals as the caller left them.
stats_without_memset(totals) == [totals EXCEPT !.visited = << >>]

\* memset(totals, 0, sizeof(*totals))
stats_memset(totals) == NoTotals

\* The loop of small_stats that asks the callback before it adds the pool.
RECURSIVE stats_loop_breaks_early(_, _, _, _)
stats_loop_breaks_early(alloc, stop, it, totals) ==
    IF it >= alloc.small_mempool_cache_size
    THEN totals
    ELSE LET stats == mempool_stats(alloc, it)
             t1    == [totals EXCEPT !.visited = Append(@, it)]
             t2    == [used    |-> UAdd(totals.used, stats.used, SizeBits),
                       total   |-> UAdd(totals.total, stats.total, SizeBits),
                       visited |-> Append(totals.visited, it)]
         IN  IF it \in stop
             THEN t1
             ELSE stats_loop_breaks_early(alloc, stop, it + 1, t2)

\* The loop of small_stats from the iterator position it
\* (mempool_iterator_next gives pool it and moves on, NULL after the last
\* pool); the callback returns nonzero for the pools in stop.
RECURSIVE small_stats_loop(_, _, _, _)
small_stats_loop(alloc, stop, it, totals) ==
    IF it >= alloc.small_mempool_cache_size
    THEN totals
    ELSE LET stats == mempool_stats(alloc, it)
             t1    == [used    |-> UAdd(totals.used, stats.used, SizeBits),
                       total   |-> UAdd(totals.total, stats.total, SizeBits),
                       visited |-> Append(totals.visited, it)]
         IN  IF it \in stop
             THEN t1
             ELSE small_stats_loop(alloc, stop, it + 1, t1)

\* small_stats(alloc, totals, cb, cb_ctx) for a struct totals the caller
\* passes with any content and a callback that returns nonzero for the pools
\* in stop: the totals after the call.
small_stats_cb(alloc, totals, stop) ==
    small_stats_loop(alloc, stop, 0, stats_memset(totals))

\* ------------------------------------------------------------------------
\* The state machine
\* ------------------------------------------------------------------------
VARIABLES
    alloc,     \* struct small_alloc
    objs,      \* the pointers the caller holds (a bag of Ptr)
    crossed,   \* history: pools whose waste smalloc found >= waste_max
    last       \* history (SpecRT only): the last call and what it returned

vars == <<alloc, objs, crossed, last>>

Pools == DOMAIN alloc.small_mempool_cache
Groups == DOMAIN alloc.small_mempool_groups

\* The slab caches the allocator is created on: scaled down, an order 0 slab
\* of 4 bytes and a largest order of 0, 1 or 2.
Caches == {[order0_size |-> 4, order_max |-> order_max] :
              order_max \in 0 .. 2}

\* The other arguments of small_alloc_create: a factor of 2 (no effective
\* bits), so that the pools have the object sizes 1, 2, 4.
CreateArgs == {[objsize_min |-> 1, granularity |-> 1, effective_bits |-> 0]}

\* Number of pools small_mempool_create makes.
NumClasses(cache, args) ==
    small_class_calc_offset_by_size(
        small_class_create(args.granularity, args.effective_bits,
                           small_align(args.objsize_min, args.granularity)),
        small_align(mempool_objsize_max(
                        slab_order_size(cache, cache.order_max)),
                    args.granularity)) + 1

\* The slab orders mempool_create can give the pools: nondecreasing in the
\* object size and at most order_max.
SlabOrders(cache, args) ==
    {so \in [0 .. NumClasses(cache, args) - 1 -> 0 .. cache.order_max] :
        \A i, j \in DOMAIN so : i <= j => so[i] <= so[j]}

\* Sizes the caller asks for: every pool size range and one large size.
Sizes == 1 .. alloc.objsize_max + 1

Call(op, ptr, used) == [op |-> op, ptr |-> ptr, used |-> used]

NoCall == Call("", NullPtr, 0)

\* Number of objects queued on the delayed lists.
RECURSIVE SumDelayed(_, _)
SumDelayed(a, it) ==
    IF it < a.small_mempool_cache_size
    THEN Len(a.small_mempool_cache[it].delayed) + SumDelayed(a, it + 1)
    ELSE 0

NumDelayed(a) == Len(a.delayed_large) + SumDelayed(a, 0)

Init ==
    \E cache \in Caches, args \in CreateArgs :
      \E slab_order \in SlabOrders(cache, args) :
        /\ alloc = small_alloc_create(cache, slab_order, args.objsize_min,
                                      args.granularity, args.effective_bits)
        /\ objs = EmptyBag
        /\ crossed = {}
        /\ last = NoCall

\* The program runs until an assertion fails or it faults (alloc.failure
\* names which), or until a call whose behaviour was undefined has returned.
Running == alloc.failure = "" /\ ~alloc.undefined

\* The condition of line 370 held in a call that gave r for size.
Crossed(size, r) ==
    LET pool == small_mempool_search(alloc, size) IN
    /\ pool # NULL
    /\ r.ptr # NullPtr
    /\ r.ptr.mempool # pool
    /\ r.alloc.small_mempool_cache[pool].waste >=
         alloc.small_mempool_groups[
             alloc.small_mempool_cache[pool].group].waste_max

Smalloc(size) ==
    /\ Running
    /\ \E r \in smalloc(alloc, size) :
         /\ BagCardinality(objs) + NumDelayed(r.alloc)
               + (IF r.ptr = NullPtr THEN 0 ELSE 1) <= MaxObjs
         /\ alloc' = r.alloc
         /\ objs' = IF r.ptr = NullPtr THEN objs
                    ELSE objs (+) SetToBag({r.ptr})
         /\ crossed' = IF Crossed(size, r)
                       THEN crossed \cup {small_mempool_search(alloc, size)}
                       ELSE crossed

Smfree(ptr) ==
    /\ Running
    /\ BagIn(ptr, objs)
    /\ alloc' \in smfree(alloc, ptr, ptr.size)
    /\ objs' = objs (-) SetToBag({ptr})
    /\ UNCHANGED crossed

SmfreeDelayed(ptr) ==
    /\ Running
    /\ BagIn(ptr, objs)
    /\ alloc' \in smfree_delayed(alloc, ptr, ptr.size)
    /\ objs' = objs (-) SetToBag({ptr})
    /\ UNCHANGED crossed

Setopt(val) ==
    /\ Running
    /\ alloc' = small_alloc_setopt(alloc, val)
    /\ UNCHANGED <<objs, crossed>>

Next ==
    \/ \E size \in Sizes : Smalloc(size) /\ UNCHANGED last
    \/ \E ptr \in BagToSet(objs) : Smfree(ptr) /\ UNCHANGED last
    \/ \E ptr \in BagToSet(objs) : SmfreeDelayed(ptr) /\ UNCHANGED last
    \/ \E val \in BOOLEAN : Setopt(val) /\ UNCHANGED last

Spec == Init /\ [][Next]_vars

\* The pointer that bag o2 holds and bag o1 does not, or NULL.
Added(o1, o2) ==
    IF \E x \in BagToSet(o2) : CopiesIn(x, o2) > CopiesIn(x, o1)
    THEN CHOOSE x \in BagToSet(o2) : CopiesIn(x, o2) > CopiesIn(x, o1)
    ELSE NullPtr

\* A caller that only calls smalloc and smfree; `last` records each smalloc
\* with totals.used before it, and an smfree of the pointer that the call
\* before it returned as a round trip.
SmallocRT(size) ==
    /\ Smalloc(size)
    /\ last' = Call("smalloc", Added(objs, objs'), small_stats(alloc).used)

SmfreeRT(ptr) ==
    /\ Smfree(ptr)
    /\ last' = IF last.op = "smalloc" /\ last.ptr = ptr
               THEN Call("roundtrip", ptr, last.used)
               ELSE Call("smfree", ptr, 0)

NextRT ==
    \/ \E size \in Sizes : SmallocRT(size)
    \/ \E ptr \in BagToSet(objs) : SmfreeRT(ptr)

SpecRT == Init /\ [][NextRT]_vars

\* ------------------------------------------------------------------------
\* Creation on its own: from the allocator as small_alloc_create has it
\* before small_mempool_create to the created allocator.
\* ------------------------------------------------------------------------
\* Arguments with more pools: 64 pools of the sizes 1 .. 64 that end at
\* objsize_max, and more classes below objsize_max than SMALL_MEMPOOL_MAX.
LargeCreateInputs ==
    {[cache |-> [order0_size |-> 4, order_max |-> 6],
      objsize_min |-> 1, granularity |-> 1, effective_bits |-> 6],
     [cache |-> [order0_size |-> 4, order_max |-> 11],
      objsize_min |-> 1, granularity |-> 1, effective_bits |-> 10]}

CreateInputs ==
    {[cache |-> cache, objsize_min |-> args.objsize_min,
      granularity |-> args.granularity,
      effective_bits |-> args.effective_bits] :
         cache \in Caches, args \in CreateArgs}
    \cup LargeCreateInputs

\* Number of pools small_mempool_create makes for the input.
NumPools(in) ==
    IF NumClasses(in.cache, in) < SMALL_MEMPOOL_MAX
    THEN NumClasses(in.cache, in) ELSE SMALL_MEMPOOL_MAX

\* Where the slab order changes in the sequences tried for n pools.
ChangePoints(n) ==
    IF n <= 64 THEN 1 .. n - 1 ELSE {1, 32, 33, n - 1}

\* Slab orders of n pools with at most one change, up to order 2.
StepOrders(n) ==
    {[i \in 0 .. n - 1 |-> IF i < t[1] THEN t[2] ELSE t[3]] :
        t \in {u \in (ChangePoints(n) \cup {0}) \X (0 .. 2) \X (0 .. 2) :
                  u[2] <= u[3] /\ (u[1] = 0 => u[2] = u[3])}}

\* The slab orders mempool_create gives the pools of the input.
CreateOrders(in) ==
    IF in \in LargeCreateInputs
    THEN StepOrders(NumPools(in))
    ELSE SlabOrders(in.cache, in)

InitCreate ==
    \E in \in CreateInputs :
       /\ alloc = small_alloc_init(in.cache, in.objsize_min, in.granularity,
                                   in.effective_bits)
       /\ objs = EmptyBag
       /\ crossed = {}
       /\ last = NoCall

\* small_mempool_create has run.
Created == alloc.small_mempool_cache_size > 0

Create ==
    /\ ~Created
    /\ \E in \in CreateInputs :
         /\ alloc = small_alloc_init(in.cache, in.objsize_min,
                                     in.granularity, in.effective_bits)
         /\ \E slab_order \in CreateOrders(in) :
              alloc' = small_mempool_create(alloc, slab_order)
    /\ UNCHANGED <<objs, crossed, last>>

NextCreate == Create

SpecCreate == InitCreate /\ [][NextCreate]_vars

\* ------------------------------------------------------------------------
\* A caller whose every call is recorded: `last` names the call that made
\* the step, with the argument of small_alloc_setopt, for smfree whether
\* the object was a large one and for smalloc whether its GC step switched
\* the mode to FREE.
\* ------------------------------------------------------------------------
OpCall(op, val) == [op |-> op, val |-> val]

\* The slab caches of this caller: one or two pools, in one group.
OpsCaches == {cache \in Caches : cache.order_max <= 1}

InitOps ==
    \E cache \in OpsCaches, args \in CreateArgs :
      \E slab_order \in SlabOrders(cache, args) :
        /\ alloc = small_alloc_create(cache, slab_order, args.objsize_min,
                                      args.granularity, args.effective_bits)
        /\ objs = EmptyBag
        /\ crossed = {}
        /\ last = OpCall("small_alloc_create", FALSE)

SmallocOp(size) ==
    /\ Smalloc(size)
    /\ last' = OpCall("smalloc", alloc.free_mode # SMALL_FREE
                                    /\ alloc'.free_mode = SMALL_FREE)

SmfreeOp(ptr) ==
    /\ Smfree(ptr)
    /\ last' = OpCall("smfree", ptr.mempool = NULL)

SmfreeDelayedOp(ptr) ==
    /\ SmfreeDelayed(ptr)
    /\ last' = OpCall("smfree_delayed", FALSE)

SetoptOp(val) ==
    /\ Setopt(val)
    /\ last' = OpCall("small_alloc_setopt", val)

\* small_stats only reads the allocator.
StatsCall(stop, totals) ==
    [op |-> "small_stats", val |-> FALSE, stop |-> stop, totals |-> totals]

\* What the caller's struct small_stats holds before the call.
TotalsBefore == {NoTotals, [used |-> 1, total |-> 4, visited |-> << >>]}

StatsOp(stop, totals) ==
    /\ Running
    /\ last' = StatsCall(stop, small_stats_cb(alloc, totals, stop))
    /\ UNCHANGED <<alloc, objs, crossed>>

NextOps ==
    \/ \E size \in Sizes : SmallocOp(size)
    \/ \E ptr \in BagToSet(objs) : SmfreeOp(ptr)
    \/ \E ptr \in BagToSet(objs) : SmfreeDelayedOp(ptr)
    \/ \E val \in BOOLEAN : SetoptOp(val)
    \/ \E stop \in SUBSET Pools, totals \in TotalsBefore :
         StatsOp(stop, totals)

SpecOps == InitOps /\ [][NextOps]_vars

\* ------------------------------------------------------------------------
\* Garbage collection of long delayed lists: the caller has allocated
\* objects, entered DELAYED_FREE mode, freed them all with smfree_delayed
\* and left the mode; then it pumps the collection with smalloc, holding at
\* most one object at a time, and may enter and leave the mode again.
\* ------------------------------------------------------------------------
\* n calls smalloc(size) that succeed, from st = [alloc, ptrs], as long as
\* no assertion fails; the pointers returned are put in front of st.ptrs.
RECURSIVE AllocMany(_, _, _)
AllocMany(st, size, n) ==
    IF n = 0 \/ st.alloc.failure # ""
    THEN st
    ELSE IF n = 1
    THEN LET r == CHOOSE r \in smalloc(st.alloc, size) :
                      r.ptr # NullPtr /\ r.ptr.off = 0
         IN  [alloc |-> r.alloc, ptrs |-> <<r.ptr>> \o st.ptrs]
    ELSE AllocMany(AllocMany(st, size, n \div 2), size, n - (n \div 2))

\* smfree_delayed of ptrs[i], ..., ptrs[j], in this order.
RECURSIVE DelayMany(_, _, _, _)
DelayMany(a, ptrs, i, j) ==
    IF i > j \/ a.failure # ""
    THEN a
    ELSE IF i = j
    THEN CHOOSE a1 \in smfree_delayed(a, ptrs[i], ptrs[i].size) : TRUE
    ELSE DelayMany(DelayMany(a, ptrs, i, (i + j) \div 2),
                   ptrs, ((i + j) \div 2) + 1, j)

\* How many objects of a pool size and how many large objects are queued.
PoolCounts == {0, 1, BATCH - 1, BATCH, BATCH + 1}
SecondPoolCounts == {0, 1, BATCH \div 2}
LargeCounts == {0, 1, BATCH, BATCH + 1}

\* The allocator with count[size] objects of every size queued, in
\* COLLECT_GARBAGE mode.
WithQueued(a, count) ==
    LET s1 == AllocMany([alloc |-> a, ptrs |-> << >>], 1, count[1])
        s2 == AllocMany(s1, 2, count[2])
        s3 == AllocMany(s2, 3, count[3])
        a1 == small_alloc_setopt(s3.alloc, TRUE)
        a2 == DelayMany(a1, s3.ptrs, 1, Len(s3.ptrs))
    IN  small_alloc_setopt(a2, FALSE)

\* The counts for an allocator whose largest pool size is objsize_max:
\* the sizes above it are large objects; every size up to 3 is counted.
QueueCounts(objsize_max) ==
    {count \in [1 .. 3 -> PoolCounts \cup SecondPoolCounts \cup LargeCounts] :
        /\ count[1] \in PoolCounts
        /\ count[2] \in (IF objsize_max >= 2 THEN SecondPoolCounts
                          ELSE LargeCounts)
        /\ count[3] \in (IF objsize_max >= 2 THEN LargeCounts ELSE {0})}

\* A recorded call: the number of objects queued before it and the number
\* of objects queued by smfree_delayed since the start.
GCCall(op, queued, pushes) ==
    [op |-> op, queued |-> queued, pushes |-> pushes]

InitGC ==
    \E cache \in OpsCaches, args \in CreateArgs :
      \E slab_order \in SlabOrders(cache, args) :
        LET a == small_alloc_create(cache, slab_order, args.objsize_min,
                                    args.granularity, args.effective_bits)
        IN  \E count \in QueueCounts(a.objsize_max) :
              /\ alloc = WithQueued(a, count)
              /\ objs = EmptyBag
              /\ crossed = {}
              /\ last = GCCall("small_alloc_setopt", NumDelayed(alloc), 0)

\* smalloc by a caller that holds no other object.
SmallocGC(size) ==
    /\ Running
    /\ objs = EmptyBag
    /\ \E r \in smalloc(alloc, size) :
         /\ alloc' = r.alloc
         /\ objs' = IF r.ptr = NullPtr THEN objs
                    ELSE objs (+) SetToBag({r.ptr})
    /\ last' = GCCall("smalloc", NumDelayed(alloc), last.pushes)
    /\ UNCHANGED crossed

SmfreeGC(ptr) ==
    /\ Smfree(ptr)
    /\ last' = GCCall("smfree", NumDelayed(alloc), last.pushes)

\* At most MaxObjs more objects are queued.
SmfreeDelayedGC(ptr) ==
    /\ alloc.free_mode = SMALL_DELAYED_FREE => last.pushes < MaxObjs
    /\ SmfreeDelayed(ptr)
    /\ last' = GCCall("smfree_delayed", NumDelayed(alloc),
                      IF alloc.free_mode = SMALL_DELAYED_FREE
                      THEN last.pushes + 1 ELSE last.pushes)

SetoptGC(val) ==
    /\ Setopt(val)
    /\ last' = GCCall("small_alloc_setopt", NumDelayed(alloc), last.pushes)

NextGC ==
    \/ \E size \in Sizes : SmallocGC(size)
    \/ \E ptr \in BagToSet(objs) : SmfreeGC(ptr)
    \/ \E ptr \in BagToSet(objs) : SmfreeDelayedGC(ptr)
    \/ \E val \in BOOLEAN : SetoptGC(val)

SpecGC == InitGC /\ [][NextGC]_vars

\* ------------------------------------------------------------------------
\* The end of small_alloc_test: after any calls the delayed free mode is
\* cleared for the last time, and from then on the caller only allocates an
\* object and frees it again, which pumps the garbage collection.
\* ------------------------------------------------------------------------
\* A recorded call: final is set once the mode was cleared for the last
\* time; pushes counts the objects queued by smfree_delayed since the start.
LiveCall(op, final, pushes) == [op |-> op, final |-> final, pushes |-> pushes]

LivePoolCounts == {0, 1, BATCH, BATCH + 1}
LiveOtherCounts == {0, 1}

InitLive ==
    \E cache \in OpsCaches, args \in CreateArgs :
      \E slab_order \in SlabOrders(cache, args) :
        LET a == small_alloc_create(cache, slab_order, args.objsize_min,
                                    args.granularity, args.effective_bits)
        IN  \E count \in [1 .. 3 -> LivePoolCounts \cup LiveOtherCounts] :
              /\ count[1] \in LivePoolCounts
              /\ count[2] \in LiveOtherCounts
              /\ count[3] \in LiveOtherCounts
              /\ alloc = WithQueued(a, count)
              /\ objs = EmptyBag
              /\ crossed = {}
              /\ last = LiveCall("small_alloc_setopt", FALSE, 0)

SmallocLive(size) ==
    /\ Running
    /\ objs = EmptyBag
    /\ \E r \in smalloc(alloc, size) :
         /\ alloc' = r.alloc
         /\ objs' = IF r.ptr = NullPtr THEN objs
                    ELSE objs (+) SetToBag({r.ptr})
    /\ last' = LiveCall("smalloc", last.final, last.pushes)
    /\ UNCHANGED crossed

\* free_checked: smfree_delayed of the object held; at most MaxObjs objects
\* are queued this way.
SmfreeDelayedLive(ptr) ==
    /\ alloc.free_mode = SMALL_DELAYED_FREE => last.pushes < MaxObjs
    /\ SmfreeDelayed(ptr)
    /\ last' = LiveCall("smfree_delayed", last.final,
                        IF alloc.free_mode = SMALL_DELAYED_FREE
                        THEN last.pushes + 1 ELSE last.pushes)

SetoptLive(val) ==
    /\ ~last.final
    /\ Setopt(val)
    /\ last' = LiveCall("small_alloc_setopt", FALSE, last.pushes)

\* The last small_alloc_setopt(alloc, SMALL_DELAYED_FREE_MODE, false).
FinalSetopt ==
    /\ ~last.final
    /\ Setopt(FALSE)
    /\ last' = LiveCall("small_alloc_setopt", TRUE, last.pushes)

\* One call of the loop that triggers the garbage collection.
Pump ==
    \/ \E size \in Sizes : SmallocLive(size)
    \/ \E ptr \in BagToSet(objs) : SmfreeDelayedLive(ptr)

NextLive ==
    \/ Pump
    \/ \E val \in BOOLEAN : SetoptLive(val)
    \/ FinalSetopt

\* The loop goes on as long as the allocator is in use.
SpecLive == InitLive /\ [][NextLive]_vars /\ WF_vars(Pump)

\* ------------------------------------------------------------------------
\* A caller that allocates objects of every size smalloc takes, 0 included,
\* and frees them with smfree_delayed in any mode; `last` names the call and
\* the size it was given.
\* ------------------------------------------------------------------------
FindCall(op, size) == [op |-> op, size |-> size]

\* Allocators with an objsize_min above 1 and a granularity above 1, next
\* to those of CreateArgs; the pools of the former share one slab order.
FindInputs ==
    {[cache |-> [order0_size |-> 4, order_max |-> 3],
      objsize_min |-> 3, granularity |-> 2, effective_bits |-> 1]}

InitFind ==
    /\ \/ \E cache \in OpsCaches, args \in CreateArgs :
             \E slab_order \in SlabOrders(cache, args) :
               alloc = small_alloc_create(cache, slab_order,
                                          args.objsize_min, args.granularity,
                                          args.effective_bits)
       \/ \E in \in FindInputs :
             alloc = small_alloc_create(
                         in.cache,
                         [i \in 0 .. NumClasses(in.cache, in) - 1 |->
                             in.cache.order_max],
                         in.objsize_min, in.granularity, in.effective_bits)
    /\ objs = EmptyBag
    /\ crossed = {}
    /\ last = FindCall("small_alloc_create", 0)

\* The sizes smalloc is called with: 0, every pool size and a large size.
FindSizes == 0 .. alloc.objsize_max + 1

\* smalloc by a caller that holds no other object.
SmallocFind(size) ==
    /\ objs = EmptyBag
    /\ Smalloc(size)
    /\ last' = FindCall("smalloc", size)

SmfreeDelayedFind(ptr) ==
    /\ SmfreeDelayed(ptr)
    /\ last' = FindCall("smfree_delayed", ptr.size)

SetoptFind(val) ==
    /\ Setopt(val)
    /\ last' = FindCall("small_alloc_setopt", 0)

NextFind ==
    \/ \E size \in FindSizes : SmallocFind(size)
    \/ \E ptr \in BagToSet(objs) : SmfreeDelayedFind(ptr)
    \/ \E val \in BOOLEAN : SetoptFind(val)

SpecFind == InitFind /\ [][NextFind]_vars

\* ------------------------------------------------------------------------
\* The size classes alone (test/small_class.c): a struct small_class is
\* created, then class_by_size and size_by_class are called on it.  alloc is
\* the struct small_class, last the call with its results.
\* ------------------------------------------------------------------------
\* The arguments of small_class_create: the granularities and the min_alloc
\* of check_expectation and of small_alloc_create (min_alloc is at least the
\* granularity), with every number of effective bits a factor in
\* [1.01, 1.99] gives: 0 .. 6; factor 1.05 gives 4.
ClassGranularities == {1, 4}
ClassMinAllocs(granularity) == {granularity, granularity + 10, 16}
ClassEffectiveBits == 0 .. 6
FactorBits105 == 4

\* The class indexes of a size class whose largest class holds test_sizes.
ClassCount(sc) == class_by_size(sc, test_sizes) + 1

InitClass ==
    \E granularity \in ClassGranularities, effective_bits \in ClassEffectiveBits :
      \E min_alloc \in ClassMinAllocs(granularity) :
        /\ alloc = small_class_create(granularity, effective_bits, min_alloc)
        /\ objs = EmptyBag
        /\ crossed = {}
        /\ last = [op |-> "small_class_create"]

\* got_class = class_by_size(&sc, s); got_class_size = size_by_class(&sc,
\* got_class)
ClassBySize(s) ==
    /\ last' = [op       |-> "class_by_size",
                size     |-> s,
                cls      |-> class_by_size(alloc, s),
                cls_size |-> size_by_class(alloc, class_by_size(alloc, s))]
    /\ UNCHANGED <<alloc, objs, crossed>>

\* size_by_class(&sc, i) and the class of the size it gave.
SizeByClass(i) ==
    /\ last' = [op   |-> "size_by_class",
                cls  |-> i,
                size |-> size_by_class(alloc, i),
                back |-> class_by_size(alloc, size_by_class(alloc, i))]
    /\ UNCHANGED <<alloc, objs, crossed>>

\* for (unsigned s = 0; s <= test_sizes; s++)
LoopSizes ==
    IF last.op = "small_class_create"
    THEN {0}
    ELSE IF last.op = "class_by_size" /\ last.size < test_sizes
    THEN {last.size + 1}
    ELSE {}

\* The same loop over the class indexes below the class count.
LoopClasses ==
    IF last.op = "small_class_create"
    THEN {0}
    ELSE IF last.op = "size_by_class" /\ last.cls < ClassCount(alloc) - 1
    THEN {last.cls + 1}
    ELSE {}

NextClass ==
    \/ \E s \in LoopSizes : ClassBySize(s)
    \/ \E i \in LoopClasses : SizeByClass(i)

SpecClass == InitClass /\ [][NextClass]_vars

TypeOK ==
    /\ alloc.free_mode \in
         {SMALL_FREE, SMALL_DELAYED_FREE, SMALL_COLLECT_GARBAGE}
    /\ BagCardinality(objs) + NumDelayed(alloc) <= MaxObjs

\* ------------------------------------------------------------------------
\* Properties
\* ------------------------------------------------------------------------
Cache == alloc.small_mempool_cache

GroupOf(p) == alloc.small_mempool_groups[Cache[p].group]

GroupPools(g) ==
    alloc.small_mempool_groups[g].first .. alloc.small_mempool_groups[g].last

Idx(p) == p - GroupOf(p).first

Active(p) == Idx(p) \in GroupOf(p).active_pool_mask

\* Every group holds pools of one slab order.
UniformGroups ==
    \A g \in Groups : \A p, q \in GroupPools(g) :
        Cache[p].slab_order = Cache[q].slab_order

\* C1: the assertion of smfree (waste >= objsize of the owning mempool minus
\* the nominal objsize) holds in every smfree, delayed or not, so that no
\* waste counter underflows.
C1_SmfreeAssertionHolds == alloc.failure # "assert:smfree"

\* The last call ran to its end (no assertion failed, no fault).
Completed == alloc.failure = ""

\* Nothing is allocated or queued and garbage collection is over.
Drained ==
    /\ objs = EmptyBag
    /\ NumDelayed(alloc) = 0
    /\ alloc.delayed = NULL
    /\ alloc.free_mode = SMALL_FREE

\* C2: once every object has been freed, DELAYED_FREE mode has been left and
\* garbage collection has run to completion, small_stats reports used == 0.
C2_DrainedUsedZero == (Completed /\ Drained) => small_stats(alloc).used = 0

\* C3: a smalloc(s) followed by smfree(ptr, s) of the pointer it returned
\* leaves totals.used as it was before the smalloc.
C3_RoundTripUsed ==
    (Completed /\ last.op = "roundtrip") =>
        small_stats(alloc).used = last.used

\* The active peers of q that are large enough for q's objects.
Donors(q) ==
    {r \in GroupPools(Cache[q].group) :
        Active(r) /\ Cache[r].objsize >= Cache[q].objsize}

\* C4: every pool's used_pool is the active peer of smallest objsize among
\* the active peers that are not smaller than the pool; it lies in the
\* pool's group at an index not below the pool's.
C4_DonorTightFit ==
    \A q \in Pools :
        /\ Cache[q].used_pool \in Donors(q)
        /\ \A r \in Donors(q) :
               Cache[Cache[q].used_pool].objsize <= Cache[r].objsize
        /\ Cache[q].used_pool >= q

\* Witness of C4: a pool borrows from a peer that was activated after
\* creation (neither itself nor the last pool of the group).
C4_Witness ==
    \E q \in Pools :
        /\ Cache[q].used_pool # q
        /\ Cache[q].used_pool # GroupOf(q).last
        /\ Cache[q].used_pool \in crossed

\* C5: a bit of active_pool_mask that is set stays set.
C5_ActiveBitsStay ==
    [][\A g \in Groups :
          alloc.small_mempool_groups[g].active_pool_mask \subseteq
              alloc'.small_mempool_groups[g].active_pool_mask]_vars

\* Witness of C5: two pools of a group were activated after creation, one
\* after the other.
C5_Witness ==
    \E p, q \in crossed : p # q /\ Cache[p].group = Cache[q].group

\* C6: small_mempool_activate is never called on a pool whose bit is set:
\* its assertions never fail.
C6_ActivatedOnce == alloc.failure # "assert:small_mempool_activate"

\* Witness of C6: a pool was activated by smalloc and has served an
\* allocation from its own mempool since.
C6_Witness ==
    \E p \in crossed : Active(p) /\ Cache[p].used > 0 /\ Running

\* The pool of the class of size s (s <= objsize_max).
ClassOf(s) == small_mempool_search(alloc, s)

\* A step that returns an object of a size whose pool is active takes it
\* from that pool's own mempool and does not raise the pool's waste.
ServesItself ==
    \A s \in Sizes :
        (/\ ClassOf(s) # NULL
         /\ Active(ClassOf(s))
         /\ Added(objs, objs') # NullPtr
         /\ Added(objs, objs').size = s)
        => /\ Added(objs, objs').mempool = ClassOf(s)
           /\ alloc'.small_mempool_cache[ClassOf(s)].waste <=
                  Cache[ClassOf(s)].waste

\* C7: once pool p is active, a successful smalloc of a size of p's class is
\* served by p's own mempool and does not increase p.waste.
C7_ActiveServesItself == [][ServesItself]_vars

\* C8: a pool whose bit is not set has waste < waste_max.
C8_InactiveBelowWasteMax ==
    \A p \in Pools :
        ~Active(p) => Cache[p].waste < GroupOf(p).waste_max

\* C9 as stated: a pool's bit is set only if the pool crossed waste_max.
C9_ActiveOnlyIfCrossed == \A p \in Pools : Active(p) => p \in crossed

\* C9 amended: the bit of a pool other than the last of its group is set
\* only if the pool's waste reached waste_max in a smalloc; the bit of the
\* last pool is set at creation.
C9_ActiveOnlyIfCrossedOrLast ==
    \A p \in Pools :
        /\ Active(p) => (p \in crossed \/ p = GroupOf(p).last)
        /\ Active(GroupOf(p).last)

\* Witness of C9: the first pool of a group of several pools is active.
C9_Witness ==
    \E g \in Groups :
        /\ alloc.small_mempool_groups[g].first
             # alloc.small_mempool_groups[g].last
        /\ 0 \in alloc.small_mempool_groups[g].active_pool_mask

\* C10: the pools of a group have one slab order, and waste_max is a quarter
\* of the size of their slabs.
C10_GroupSharesSlabOrder ==
    \A g \in Groups : \A p \in GroupPools(g) :
        /\ Cache[p].slab_order =
             Cache[alloc.small_mempool_groups[g].first].slab_order
        /\ alloc.small_mempool_groups[g].waste_max =
             slab_order_size(alloc.cache, Cache[p].slab_order) \div 4

\* The loop of small_mempool_create ended because objsize reached objsize_max
\* (the maximum small_alloc_create computed from the slab cache).
ReachedObjsizeMax ==
    alloc.objsize_max =
        small_align(mempool_objsize_max(
                        slab_order_size(alloc.cache, alloc.cache.order_max)),
                    alloc.small_class.granularity)

\* The groups partition the pool array into contiguous runs of 1 to
\* POOL_PER_GROUP_MAX pools, in increasing pool order.
GroupsPartitionPools ==
    /\ \A p \in Pools :
          /\ Cache[p].group \in Groups
          /\ \A g \in Groups : p \in GroupPools(g) <=> g = Cache[p].group
    /\ \A g \in Groups :
          /\ GroupPools(g) \subseteq Pools
          /\ Cardinality(GroupPools(g)) >= 1
          /\ Cardinality(GroupPools(g)) <= POOL_PER_GROUP_MAX
          /\ alloc.small_mempool_groups[g].first =
                IF g = 0 THEN 0
                ELSE alloc.small_mempool_groups[g - 1].last + 1

\* C11: after small_alloc_create every pool belongs to exactly one group,
\* each group is a contiguous range of 1 to 32 pools and the groups follow
\* each other in pool order, also when creation stops at SMALL_MEMPOOL_MAX
\* pools.
C11_GroupsPartitionPools == Created => GroupsPartitionPools

\* The groups partition the pools when creation ended at objsize_max.
GroupsPartitionPoolsAtObjsizeMax ==
    (Created /\ ReachedObjsizeMax) => GroupsPartitionPools

\* The groups as small_mempool_create_group seeds them: the last pool of a
\* group is its only active pool and the donor of every pool of the group,
\* no pool has waste, and the pool at index idx is served by the peers at
\* the indices idx .. POOL_PER_GROUP_MAX - 1.
GroupsSeeded ==
    /\ \A g \in Groups :
          alloc.small_mempool_groups[g].active_pool_mask =
              {alloc.small_mempool_groups[g].last
                   - alloc.small_mempool_groups[g].first}
    /\ \A p \in Pools :
          /\ Cache[p].group \in Groups
          /\ Cache[p].used_pool = GroupOf(p).last
          /\ Cache[p].waste = 0
          /\ Cache[p].appropriate_pool_mask =
                Idx(p) .. (POOL_PER_GROUP_MAX - 1)

\* C12: immediately after small_alloc_create exactly the last pool's bit of
\* every group is set, every pool's used_pool is the last pool of its group,
\* every pool's waste is 0 and the pool at group index idx has the
\* appropriate_pool_mask of the bits idx .. 31.
C12_GroupsSeeded == Created => GroupsSeeded

\* The groups are seeded so when creation ended at objsize_max.
GroupsSeededAtObjsizeMax == (Created /\ ReachedObjsizeMax) => GroupsSeeded

\* The pointer that bag o1 holds and bag o2 does not, or NULL.
Removed(o1, o2) == Added(o2, o1)

\* The delayed lists of allocator a: the large objects, the list of pools
\* and every pool's objects.
DelayedLists(a) ==
    [delayed_large |-> a.delayed_large,
     delayed       |-> a.delayed,
     pools         |-> [p \in DOMAIN a.small_mempool_cache |->
                           <<a.small_mempool_cache[p].delayed,
                             a.small_mempool_cache[p].link>>]]

\* C13: outside DELAYED_FREE mode smfree_delayed(ptr, size) does what
\* smfree(ptr, size) does: it ends in a state smfree can end in, the owner
\* of the object (where its slab is found) has the object's bytes back, and
\* no delayed list changes.
C13_DelayedIsSmfree ==
    [][(last'.op = "smfree_delayed" /\ alloc.free_mode # SMALL_DELAYED_FREE)
       => LET ptr == Removed(objs, objs') IN
          /\ alloc' \in smfree(alloc, ptr, ptr.size)
          /\ DelayedLists(alloc') = DelayedLists(alloc)
          /\ (ptr.mempool # NULL /\ alloc'.failure = ""
                 /\ ~alloc'.undefined)
              => alloc'.small_mempool_cache[ptr.mempool].used =
                   USub(Cache[ptr.mempool].used, Cache[ptr.mempool].objsize,
                        SizeBits)]_vars

\* Witness of C13: smfree_delayed was called in COLLECT_GARBAGE mode while
\* an earlier object was still queued.
C13_Witness ==
    /\ last.op = "smfree_delayed"
    /\ alloc.free_mode = SMALL_COLLECT_GARBAGE
    /\ NumDelayed(alloc) > 0
    /\ Running

\* The allocator after ptr of the given size was queued: on delayed_large
\* when the size has no pool, else on the delayed list of the pool of the
\* size, with the pool pushed on alloc->delayed if its list was empty.
Queued(a, ptr, size) ==
    LET pool == small_mempool_search(a, size) IN
    IF pool = NULL
    THEN [a EXCEPT !.delayed_large = <<ptr>> \o @]
    ELSE IF a.small_mempool_cache[pool].delayed = << >>
    THEN [a EXCEPT !.small_mempool_cache[pool].delayed = <<ptr>>,
                   !.small_mempool_cache[pool].link = a.delayed,
                   !.delayed = pool]
    ELSE [a EXCEPT !.small_mempool_cache[pool].delayed = <<ptr>> \o @]

\* C14: in DELAYED_FREE mode smfree_delayed of a non-NULL pointer releases
\* nothing: totals.used, every pool's waste and every mempool's used bytes
\* stay, and the allocator changes by the pushes only.
C14_DelayedOnlyQueues ==
    [][(last'.op = "smfree_delayed" /\ alloc.free_mode = SMALL_DELAYED_FREE)
       => LET ptr == Removed(objs, objs') IN
          /\ ptr # NullPtr
          /\ small_stats(alloc').used = small_stats(alloc).used
          /\ \A p \in Pools :
                /\ alloc'.small_mempool_cache[p].waste = Cache[p].waste
                /\ alloc'.small_mempool_cache[p].used = Cache[p].used
          /\ alloc' = Queued(alloc, ptr, ptr.size)]_vars

\* Witness of C14: smfree_delayed queued a second object on a pool's list
\* in DELAYED_FREE mode.
C14_Witness ==
    /\ last.op = "smfree_delayed"
    /\ alloc.free_mode = SMALL_DELAYED_FREE
    /\ \E p \in Pools : Len(Cache[p].delayed) = 2

\* C15: small_alloc_setopt(SMALL_DELAYED_FREE_MODE, val) sets free_mode to
\* DELAYED_FREE for true and to COLLECT_GARBAGE for false, whatever the mode
\* was, and changes nothing else of the allocator.
C15_SetoptSetsModeOnly ==
    [][last'.op = "small_alloc_setopt"
       => /\ alloc'.free_mode = IF last'.val THEN SMALL_DELAYED_FREE
                                ELSE SMALL_COLLECT_GARBAGE
          /\ [alloc' EXCEPT !.free_mode = alloc.free_mode] = alloc
          /\ objs' = objs]_vars

\* Witness of C15: small_alloc_setopt(false) was called with objects on the
\* delayed lists.
C15_Witness ==
    /\ last.op = "small_alloc_setopt"
    /\ ~last.val
    /\ alloc.free_mode = SMALL_COLLECT_GARBAGE
    /\ NumDelayed(alloc) > 0
    /\ \E p \in Pools : Cache[p].waste > 0

\* C16: one smalloc call releases at most BATCH delayed items, large and
\* regular together.
C16_AtMostBatchReleased ==
    [][last'.op = "smalloc"
       => NumDelayed(alloc) - NumDelayed(alloc') <= BATCH]_vars

\* Witness of C16: a smalloc call released BATCH items and left some queued.
C16_Witness ==
    /\ last.op = "smalloc"
    /\ last.queued - NumDelayed(alloc) = BATCH
    /\ NumDelayed(alloc) > 0

\* C17: large objects are drained first: a step that starts while
\* delayed_large is not empty releases no regular delayed object, so no
\* pool's delayed list gets shorter before delayed_large is empty.
C17_LargeDrainedFirst ==
    [][alloc.delayed_large # << >>
       => \A p \in Pools :
            Len(alloc'.small_mempool_cache[p].delayed)
                >= Len(alloc.small_mempool_cache[p].delayed)]_vars

\* Witness of C17: a smalloc call released a batch of large objects, more
\* large objects are queued, and regular objects wait in the pools.
C17_Witness ==
    /\ last.op = "smalloc"
    /\ last.queued - NumDelayed(alloc) = BATCH
    /\ alloc.delayed_large # << >>
    /\ alloc.delayed # NULL
    /\ \E p \in Pools : Cache[p].delayed # << >>

\* Nothing is queued: delayed_large, alloc->delayed and every pool's
\* delayed list are empty.
NothingDelayed ==
    /\ alloc.delayed_large = << >>
    /\ alloc.delayed = NULL
    /\ \A p \in Pools : Cache[p].delayed = << >>

\* The collection is over: the mode is FREE again and nothing is queued.
Collected == alloc.free_mode = SMALL_FREE /\ NothingDelayed

\* alloc->delayed holds a pool whose link leads back to itself.
DelayedCyclic ==
    \E p \in lifo_reach(alloc, alloc.delayed, {}) :
        p \in lifo_reach(alloc, Cache[p].link, {})

\* C18: once the delayed free mode was cleared for the last time, repeated
\* smalloc calls eventually switch the mode from COLLECT_GARBAGE back to
\* FREE, with delayed_large, alloc->delayed and every pool's delayed list
\* empty.
C18_EventuallyCollected == last.final ~> Collected

\* Where a call that cleared the mode for the last time left alloc->delayed
\* without a cycle, the collection ends or the program has stopped on a
\* misresolved slab.
AcyclicEventuallyCollected ==
    (last.final /\ last.op = "small_alloc_setopt" /\ ~DelayedCyclic)
        ~> (Collected \/ ~Running)

\* Nothing was popped from a list that was old and is now new: old is the
\* tail of new.
NotPopped(old, new) ==
    /\ Len(new) >= Len(old)
    /\ SubSeq(new, Len(new) - Len(old) + 1, Len(new)) = old

\* The calls other than smalloc.
NotSmalloc == {"smfree", "smfree_delayed", "small_alloc_setopt", "small_stats"}

\* C19: garbage collection is pumped only from smalloc: smfree,
\* smfree_delayed, small_alloc_setopt and small_stats pop nothing from
\* delayed_large or from a pool's delayed list and never change free_mode
\* from COLLECT_GARBAGE to FREE.
C19_OnlySmallocCollects ==
    [][last'.op \in NotSmalloc
       => /\ NotPopped(alloc.delayed_large, alloc'.delayed_large)
          /\ \A p \in Pools :
                NotPopped(Cache[p].delayed,
                          alloc'.small_mempool_cache[p].delayed)
          /\ ~(/\ alloc.free_mode = SMALL_COLLECT_GARBAGE
               /\ alloc'.free_mode = SMALL_FREE)]_vars

\* Witness of C19: smfree was called in COLLECT_GARBAGE mode while an object
\* was queued, and the object is still queued.
C19_Witness ==
    /\ last.op = "smfree"
    /\ alloc.free_mode = SMALL_COLLECT_GARBAGE
    /\ NumDelayed(alloc) > 0

\* C20 as stated: a smfree_delayed call in COLLECT_GARBAGE mode with delayed
\* items pending performs a step of the garbage collection, as smalloc does,
\* and then frees its object.
C20_DelayedCollects ==
    [][(/\ last'.op = "smfree_delayed"
        /\ alloc.free_mode = SMALL_COLLECT_GARBAGE
        /\ NumDelayed(alloc) > 0)
       => LET ptr == Removed(objs, objs') IN
          alloc' \in UNION {smfree(a1, ptr, ptr.size) :
                              a1 \in small_collect_garbage(alloc)}]_vars

\* C20 amended: a smfree_delayed call in COLLECT_GARBAGE mode with delayed
\* items pending performs no step of the garbage collection: every pending
\* item stays queued and free_mode stays COLLECT_GARBAGE.
C20_DelayedCollectsNothing ==
    [][(/\ last'.op = "smfree_delayed"
        /\ alloc.free_mode = SMALL_COLLECT_GARBAGE
        /\ NumDelayed(alloc) > 0)
       => /\ NumDelayed(alloc') = NumDelayed(alloc)
          /\ alloc'.delayed = alloc.delayed
          /\ alloc'.free_mode = SMALL_COLLECT_GARBAGE]_vars

\* Witness of C20: smfree_delayed was called in COLLECT_GARBAGE mode, a pool
\* still has its delayed object and the caller holds nothing more.
C20_Witness ==
    /\ last.op = "smfree_delayed"
    /\ alloc.free_mode = SMALL_COLLECT_GARBAGE
    /\ \E p \in Pools : Cache[p].delayed # << >>
    /\ objs = EmptyBag

\* C21: within a pool the garbage collection releases the delayed objects
\* in the reverse order of the smfree_delayed calls that queued them: a
\* smfree_delayed call puts its object in front of the pool's list and a
\* smalloc call takes objects from the front only, so what stays queued is
\* what was queued earliest.
C21_NewestReleasedFirst ==
    [][\A p \in Pools :
         LET old == Cache[p].delayed
             new == alloc'.small_mempool_cache[p].delayed
         IN  /\ last'.op = "smalloc" => NotPopped(new, old)
             /\ last'.op = "smfree_delayed"
                  => new = old \/ (new # << >> /\ Tail(new) = old)]_vars

\* Witness of C21: a smalloc call released BATCH objects of a pool whose
\* list held objects of the pool itself and of its donor, and the object
\* that is left is not like the one that was queued last.
C21_Witness ==
    /\ last.op = "smalloc"
    /\ last.queued - NumDelayed(alloc) = BATCH
    /\ alloc.delayed_large = << >>
    /\ \E p \in Pools :
         /\ Cache[p].delayed # << >>
         /\ Cache[p].delayed[Len(Cache[p].delayed)].mempool = p
         /\ Cache[p].used_pool = p
         /\ Cache[p].waste = 0
         /\ p + 1 \in Pools
    /\ Running

\* Every queued object was released: delayed_large and every pool's
\* delayed list are empty.
AllReleased ==
    /\ alloc.delayed_large = << >>
    /\ \A p \in Pools : Cache[p].delayed = << >>

\* C22: when the delayed free mode is set again while a collection is
\* partly done, also after a step that ended exactly when a pool's list
\* became empty, the objects left and the objects queued later are all
\* released by the smalloc calls that follow the next clearing of the mode
\* (unless the program stops on a misresolved slab).
C22_ResumedDrainReleasesAll == last.final ~> (AllReleased \/ ~Running)

\* Where a call that cleared the mode for the last time left alloc->delayed
\* without a cycle, every queued object is released.
AcyclicReleasesAll ==
    (last.final /\ last.op = "small_alloc_setopt" /\ ~DelayedCyclic)
        ~> (AllReleased \/ ~Running)

\* C23: smalloc returns NULL exactly when the slab cache gave no memory: a
\* call that returned NULL did nothing but its garbage collection step
\* (every waste, used_pool and active_pool_mask is as the step left it), and
\* a call that returned an object took it from the slab cache: as a large
\* slab, or from the mempool whose used bytes grew by one object.
C23_NullOnlyWithoutMemory ==
    [][(last'.op = "smalloc" /\ alloc'.failure = "")
       => IF objs' = objs
          THEN alloc' \in small_collect_garbage(alloc)
          ELSE LET ptr == Added(objs, objs') IN
               /\ ptr # NullPtr
               /\ ptr.mempool # NULL
                    => \E a1 \in small_collect_garbage(alloc) :
                         alloc'.small_mempool_cache[ptr.mempool].used =
                           UAdd(a1.small_mempool_cache[ptr.mempool].used,
                                Cache[ptr.mempool].objsize, SizeBits)]_vars

\* Witness of C23: a smalloc call released the delayed objects (the mode
\* is still COLLECT_GARBAGE and nothing is queued) and returned NULL (the
\* caller holds nothing) while a pool is served by a larger one.
C23_Witness ==
    /\ last.op = "smalloc"
    /\ objs = EmptyBag
    /\ alloc.free_mode = SMALL_COLLECT_GARBAGE
    /\ NumDelayed(alloc) = 0
    /\ Running
    /\ \E p \in Pools : Cache[p].used_pool # p /\ Cache[p].used_pool # NULL

\* C24: objects larger than objsize_max bypass the pools.  An object that
\* smalloc returns is a large slab exactly when its size is above
\* objsize_max; the call then leaves the allocator as its garbage collection
\* step left it, and smfree of a large object leaves the allocator as it
\* was: no waste, used_pool, delayed list, used bytes or active_pool_mask
\* changes and nothing records the live object.
C24_LargeBypassesPools ==
    [][/\ last'.op = "smalloc"
          => LET ptr == Added(objs, objs') IN
             /\ ptr # NullPtr
                  => (ptr.mempool = NULL <=> ptr.size > alloc.objsize_max)
             /\ (ptr # NullPtr /\ ptr.mempool = NULL)
                  => alloc' \in small_collect_garbage(alloc)
       /\ last'.op = "smfree"
          => LET ptr == Removed(objs, objs') IN
             ptr.size > alloc.objsize_max
                => ptr.mempool = NULL /\ alloc' = alloc]_vars

\* Witness of C24: smfree returned a large object while a pool had waste
\* and a delayed object.
C24_Witness ==
    /\ last.op = "smfree"
    /\ last.val
    /\ \E p \in Pools : Cache[p].waste > 0 /\ Cache[p].delayed # << >>

\* The sums, on size_t, of the used and total bytes of the pools 0 .. k.
RECURSIVE SumStats(_, _)
SumStats(a, k) ==
    IF k < 0
    THEN [used |-> 0, total |-> 0]
    ELSE LET rest  == SumStats(a, k - 1)
             stats == mempool_stats(a, k)
         IN  [used  |-> UAdd(rest.used, stats.used, SizeBits),
              total |-> UAdd(rest.total, stats.total, SizeBits)]

\* The totals of a call whose callback was called for the pools 0 .. k, in
\* this order, and for no other.
TotalsUpTo(a, k) ==
    [used    |-> SumStats(a, k).used,
     total   |-> SumStats(a, k).total,
     visited |-> [i \in 1 .. k + 1 |-> i - 1]]

\* C25: with a callback that always returns 0, small_stats calls it once
\* for every pool in increasing class index order and returns the sums of
\* the pools' used and total bytes, whatever the totals held before.
C25_StatsSumsEveryPool ==
    (last.op = "small_stats" /\ last.stop = {})
        => last.totals = TotalsUpTo(alloc, alloc.small_mempool_cache_size - 1)

\* Witness of C25: small_stats ran over two pools that both hold objects.
C25_Witness ==
    /\ last.op = "small_stats"
    /\ last.stop = {}
    /\ Len(last.totals.visited) = 2
    /\ \A p \in Pools : Cache[p].used > 0
    /\ last.totals.total > last.totals.used

\* C26: a nonzero return of the callback halts the iteration: the callback
\* is called for no pool of a higher class index, and the totals are the
\* sums over the pools up to and including the one it returned nonzero for.
C26_NonzeroHaltsStats ==
    (last.op = "small_stats" /\ last.stop # {})
        => last.totals = TotalsUpTo(alloc, SetMin(last.stop))

\* Witness of C26: the callback returned nonzero for the first of two pools
\* that both hold objects.
C26_Witness ==
    /\ last.op = "small_stats"
    /\ last.stop = {0}
    /\ last.totals.visited = <<0>>
    /\ last.totals.used > 0
    /\ \A p \in Pools : Cache[p].used > 0
    /\ Cardinality(Pools) = 2

\* C27: size class round trip: class_by_size(size_by_class(i)) == i for
\* every class index i below the class count.
C27_ClassRoundTrip == last.op = "size_by_class" => last.back = last.cls

\* Witness of C27: the round trip of a class of the logarithmic region of a
\* size class with granularity 4 and a min_alloc that is no multiple of it.
C27_Witness ==
    /\ last.op = "size_by_class"
    /\ last.cls > 2 * alloc.effective_size
    /\ last.back = last.cls
    /\ alloc.granularity = 4
    /\ alloc.size_shift = 10
    /\ alloc.effective_bits = 2

\* C28: for every size s, class_by_size(s) is the smallest class index i
\* with size_by_class(i) >= s: its class holds s and no smaller class does.
C28_SmallestClassThatFits ==
    last.op = "class_by_size"
        => /\ last.cls_size >= last.size
           /\ \A i \in 0 .. last.cls - 1 : size_by_class(alloc, i) < last.size

\* Witness of C28: a size that is exactly the size of a class of the
\* logarithmic region, and a size one above it.
C28_Witness ==
    /\ last.op = "class_by_size"
    /\ last.cls > 2 * alloc.effective_size
    /\ alloc.effective_bits = 3
    /\ alloc.granularity = 4
    /\ \/ last.cls_size = last.size
       \/ size_by_class(alloc, last.cls - 1) = last.size - 1

\* C29 as stated: for every class index i <= eff_size, size_by_class(i) is
\* m + i*g - g, for min_alloc m and granularity g.
C29_LinearSizeMinusG ==
    (last.op = "size_by_class" /\ last.cls <= alloc.effective_size)
        => last.size = (alloc.size_shift + alloc.granularity)
                          + last.cls * alloc.granularity - alloc.granularity

\* C29 amended: for every class index i <= eff_size, size_by_class(i) is
\* m + i*g.
C29_LinearSize ==
    (last.op = "size_by_class" /\ last.cls <= alloc.effective_size)
        => last.size = (alloc.size_shift + alloc.granularity)
                          + last.cls * alloc.granularity

\* Witness of C29: the size of class eff_size, for 16 linear classes,
\* granularity 4 and min_alloc 14.
C29_Witness ==
    /\ last.op = "size_by_class"
    /\ last.cls = alloc.effective_size
    /\ alloc.effective_size = 16
    /\ alloc.granularity = 4
    /\ alloc.size_shift = 10
    /\ last.size = 14 + 16 * 4

\* The table test_class_size of check_expectation for a granularity and a
\* min_alloc, with eff_size classes to a block.  test_block_base is
\* class_size before the first class of block b, test_growth what is added
\* for each class of the block: the granularity in the blocks 0 and 1, then
\* twice as much from block to block.
test_growth(granularity, b) ==
    IF b = 0 THEN granularity ELSE granularity * Pow2(b - 1)

RECURSIVE test_block_base(_, _, _, _)
test_block_base(granularity, min_alloc, eff_size, b) ==
    IF b = 0
    THEN min_alloc - granularity
    ELSE test_block_base(granularity, min_alloc, eff_size, b - 1)
             + eff_size * test_growth(granularity, b - 1)

test_class_size(granularity, min_alloc, eff_size, i) ==
    test_block_base(granularity, min_alloc, eff_size, i \div eff_size)
        + ((i % eff_size) + 1) * test_growth(granularity, i \div eff_size)

\* while (expect_class < test_classes && s > test_class_size[expect_class])
\*     expect_class++;
RECURSIVE expect_class_loop(_, _, _, _, _)
expect_class_loop(granularity, min_alloc, eff_size, s, expect_class) ==
    IF /\ expect_class < test_classes
       /\ s > test_class_size(granularity, min_alloc, eff_size, expect_class)
    THEN expect_class_loop(granularity, min_alloc, eff_size, s,
                           expect_class + 1)
    ELSE expect_class

\* The size classes check_expectation creates: factor 1.05, granularity 1
\* or 4, min_alloc the granularity or 10 more.
TestVariant ==
    /\ alloc.effective_bits = FactorBits105
    /\ alloc.granularity \in {1, 4}
    /\ alloc.size_shift \in {0, 10}

\* C30: for factor 1.05, granularity g in {1, 4} and min_alloc in
\* {g, g + 10}: eff_size is 16; class 0 has size min_alloc; consecutive
\* class sizes differ by g in the first 32 classes and the step doubles for
\* each further block of 16 classes; and for every s in 0 .. 1024 the class
\* of s and the size of this class are those of the smallest entry of the
\* table that is >= s.
C30_MatchesTestTable ==
    TestVariant
        => LET g         == alloc.granularity
               min_alloc == alloc.size_shift + g
               eff_size  == 16
           IN
           /\ alloc.effective_size = eff_size
           /\ last.op = "size_by_class"
                => /\ last.size = test_class_size(g, min_alloc, eff_size,
                                                  last.cls)
                   /\ last.cls = 0 => last.size = min_alloc
                   /\ (0 < last.cls /\ last.cls < 32)
                        => last.size - size_by_class(alloc, last.cls - 1) = g
                   /\ last.cls >= 32
                        => last.size - size_by_class(alloc, last.cls - 1)
                              = g * Pow2((last.cls \div 16) - 1)
           /\ last.op = "class_by_size"
                => LET expect_class ==
                           expect_class_loop(g, min_alloc, eff_size,
                                             last.size, 0)
                   IN  /\ last.cls = expect_class
                       /\ last.cls_size =
                            test_class_size(g, min_alloc, eff_size,
                                            expect_class)

\* Witness of C30: class_by_size(1024) for granularity 4 and min_alloc 14.
C30_Witness ==
    /\ TestVariant
    /\ alloc.granularity = 4
    /\ alloc.size_shift = 10
    /\ last.op = "class_by_size"
    /\ last.size = test_sizes
    /\ last.cls > 32
    /\ last.cls_size > last.size

\* The objects queued on the delayed lists of the pools it, it + 1, ..., as
\* a bag.
RECURSIVE QueuedBag(_, _)
QueuedBag(a, it) ==
    IF it < a.small_mempool_cache_size
    THEN LET s == a.small_mempool_cache[it].delayed
         IN  [x \in {s[i] : i \in DOMAIN s} |->
                 Cardinality({i \in DOMAIN s : s[i] = x})]
                (+) QueuedBag(a, it + 1)
    ELSE EmptyBag

\* The objects that smalloc returned and that are not yet released to a
\* mempool: those the caller holds and those queued on a pool's list.
Unreleased == objs (+) QueuedBag(alloc, 0)

\* What smalloc added to the waste of pool p for the object ptr: the object
\* size of the mempool that served it minus p's, when p is the pool of the
\* object's size class.
Borrowed(ptr, p) ==
    IF ptr.mempool # NULL /\ small_mempool_search(alloc, ptr.size) = p
    THEN Cache[ptr.mempool].objsize - Cache[p].objsize
    ELSE 0

\* The sum of Borrowed over the objects S of the bag B.
RECURSIVE SumBorrowed(_, _, _)
SumBorrowed(B, S, p) ==
    IF S = {}
    THEN 0
    ELSE LET ptr == CHOOSE x \in S : TRUE
         IN  CopiesIn(ptr, B) * Borrowed(ptr, p)
                + SumBorrowed(B, S \ {ptr}, p)

\* Every pool's waste is what its unreleased objects borrowed.
WasteIsBorrowed ==
    \A p \in Pools :
        Cache[p].waste = SumBorrowed(Unreleased, BagToSet(Unreleased), p)

\* C31: in every state reached by calls that ran to their end, each pool's
\* waste is the sum, over the unreleased objects of the pool's class (held
\* by the caller or queued on a delayed list), of the object size of the
\* mempool that served the object minus the pool's object size.
C31_WasteIsBorrowed == Completed => WasteIsBorrowed

\* In groups of one slab order the waste is what was borrowed.
UniformGroupsWasteIsBorrowed == UniformGroups => C31_WasteIsBorrowed

\* The number of objects of the bag B that mempool m served.
RECURSIVE NumServed(_, _, _)
NumServed(B, S, m) ==
    IF S = {}
    THEN 0
    ELSE LET ptr == CHOOSE x \in S : TRUE
         IN  (IF ptr.mempool = m THEN CopiesIn(ptr, B) ELSE 0)
                + NumServed(B, S \ {ptr}, m)

\* Every mempool has as many objects allocated as it served and are not
\* yet released.
UsedIsServed ==
    \A m \in Pools :
        Cache[m].used =
            Cache[m].objsize * NumServed(Unreleased, BagToSet(Unreleased), m)

\* C32: every object is released, by smfree or by a GC step, into the
\* mempool that served it, also when the nominal pool's used_pool has
\* changed since; so each mempool's number of allocated objects is the
\* number of unreleased objects it served.
C32_ReleasedToServingMempool == Completed => UsedIsServed

\* In groups of one slab order every object returns to its mempool.
UniformGroupsReleasedToServingMempool ==
    UniformGroups => C32_ReleasedToServingMempool

\* One iteration of the loop over the regular delayed objects in which the
\* object taken from the list is released by a call of smfree instead.
smfree_queued_body(st) ==
    IF st.done \/ st.i >= BATCH \/ st.alloc.failure # ""
    THEN {[st EXCEPT !.done = TRUE]}
    ELSE LET a     == st.alloc
             pool  == st.pool
             cache == a.small_mempool_cache
         IN
         IF cache[pool].delayed = << >>
         THEN LET a1 == lifo_pop_pool(a) IN
              {[alloc |-> a1, pool |-> a1.delayed, i |-> st.i + 1,
                done |-> a1.delayed = NULL]}
         ELSE LET item == Head(cache[pool].delayed)
                  a1   == [a EXCEPT
                            !.small_mempool_cache[pool].delayed = Tail(@)]
              IN  {[alloc |-> a2, pool |-> pool, i |-> st.i + 1,
                    done |-> a2.failure # ""]
                   : a2 \in smfree(a1, item, item.size)}

\* At most n such iterations from each of the loop states S.
RECURSIVE smfree_queued_iterate(_, _)
smfree_queued_iterate(S, n) ==
    UNION {IF n = 0 \/ T = {}
           THEN T
           ELSE IF n = 1
           THEN UNION {smfree_queued_body(st) : st \in T}
           ELSE smfree_queued_iterate(
                    smfree_queued_iterate(T, n \div 2), n - (n \div 2)) :
           T \in {S}}

\* The states allocator a can be in after the objects that a GC step takes
\* from the pools' delayed lists were released by smfree, in the order of
\* the step.
smfree_queued(a) ==
    {st.alloc : st \in smfree_queued_iterate(
                           {[alloc |-> a, pool |-> a.delayed, i |-> 0,
                             done |-> FALSE]}, BATCH)}

\* The step is a smalloc whose GC step released objects queued on the
\* pools' delayed lists, and the call ran to its end.
ReleasesQueued ==
    /\ alloc.free_mode = SMALL_COLLECT_GARBAGE
    /\ alloc.delayed_large = << >>
    /\ SumDelayed(alloc', 0) < SumDelayed(alloc, 0)
    /\ alloc'.failure = ""

\* C33: an object released through the delayed path (queued by
\* smfree_delayed in DELAYED_FREE mode, drained by a GC step) leaves the
\* allocator as a release by smfree does: the step ends in a state that
\* smfree of the drained objects can end in, the nominal pool's waste goes
\* down by the serving mempool's objsize minus the nominal objsize and the
\* object returns to the mempool that served it.
C33_DelayedPathIsSmfree ==
    [][ReleasesQueued =>
        /\ \E size \in Sizes : \E a \in smfree_queued(alloc) :
              \E r \in smalloc_after_gc(a, size) : r.alloc = alloc'
        /\ (WasteIsBorrowed /\ UsedIsServed)
              => (WasteIsBorrowed /\ UsedIsServed)']_vars

\* In groups of one slab order the delayed path does what smfree does.
UniformGroupsDelayedPathIsSmfree ==
    [][UniformGroups => (ReleasesQueued =>
        /\ \E size \in Sizes : \E a \in smfree_queued(alloc) :
              \E r \in smalloc_after_gc(a, size) : r.alloc = alloc'
        /\ (WasteIsBorrowed /\ UsedIsServed)
              => (WasteIsBorrowed /\ UsedIsServed)')]_vars

\* The pools on the allocator's delayed list.
Enqueued == lifo_reach(alloc, alloc.delayed, {})

\* C34: a GC step pops the head pool from the allocator's delayed list when
\* the pool's own delayed list empties, so after every operation a pool is
\* on the allocator's delayed list exactly when its own delayed list is
\* non-empty.
C34_EnqueuedIffNonEmpty ==
    Running => \A p \in Pools : p \in Enqueued <=> Cache[p].delayed # << >>

\* C35: each pool's link occurs at most once in the allocator's delayed
\* list: smfree_delayed never pushes a pool that is already enqueued, so
\* the list has no cycle and every pool with queued objects is reachable
\* from the list head, for any interleaving of setopt, smfree_delayed and
\* smalloc.
C35_DelayedAcyclic ==
    Running =>
        /\ ~DelayedCyclic
        /\ \A p \in Pools : Cache[p].delayed # << >> => p \in Enqueued

\* C36: whenever free_mode is FREE, delayed_large, the allocator's delayed
\* list and every pool's delayed list are empty; the mode becomes FREE only
\* in the GC step of a smalloc that found both allocator-level lists empty
\* in COLLECT_GARBAGE mode, and that step releases nothing: the call does
\* what smalloc does after a GC step that only switched the mode.
C36_FreeModeNothingDelayed ==
    [][/\ alloc.free_mode = SMALL_FREE => NothingDelayed
       /\ alloc'.free_mode = SMALL_FREE => NothingDelayed'
       /\ (alloc.free_mode # SMALL_FREE /\ alloc'.free_mode = SMALL_FREE) =>
             /\ last'.op = "smalloc"
             /\ alloc.free_mode = SMALL_COLLECT_GARBAGE
             /\ alloc.delayed_large = << >>
             /\ alloc.delayed = NULL
             /\ \E size \in Sizes :
                  \E r \in smalloc_after_gc(
                               [alloc EXCEPT !.free_mode = SMALL_FREE], size) :
                     r.alloc = alloc']_vars

\* Witness of C36: a smalloc whose GC step found both lists empty, switched
\* the mode to FREE and returned an object.
C36_Witness ==
    /\ last.op = "smalloc"
    /\ last.val
    /\ alloc.free_mode = SMALL_FREE
    /\ objs # EmptyBag
    /\ Running

\* The pool the size-class lookup selects for size s takes s: s lies
\* between the pool's objsize_min and its objsize.
PoolTakes(s) ==
    LET pool == small_mempool_search(alloc, s) IN
    pool # NULL =>
        /\ Cache[pool].objsize_min <= s
        /\ s <= Cache[pool].objsize

\* C37: for every size s that smalloc accepts for pool allocation
\* (0 <= s <= objsize_max) the pool selected by the size-class lookup has
\* objsize_min <= s <= objsize, so neither an assertion of mempool_find
\* fails when smfree_delayed is called in DELAYED_FREE mode with a pointer
\* and the size it was allocated with, nor the assertion of smalloc on the
\* serving pool's objsize.
C37_FindAssertionsHold ==
    /\ alloc.failure # "assert:mempool_find"
    /\ alloc.failure # "assert:smalloc"
    /\ last.op = "smalloc" => PoolTakes(last.size)

\* For every size from 1 to objsize_max the selected pool takes the size
\* and the assertions hold: an assertion fails for size 0 only.
PositiveSizesFound ==
    /\ \A s \in 1 .. alloc.objsize_max : PoolTakes(s)
    /\ alloc.failure # "assert:smalloc"
    /\ alloc.failure = "assert:mempool_find" => last.size = 0
    /\ (last.op = "smalloc" /\ last.size # 0) => PoolTakes(last.size)

\* ------------------------------------------------------------------------
\* Where every group holds pools of one slab order, slab_from_ptr finds the
\* slab of every object and the properties that the mixed groups break
\* hold: no assertion fails, nothing faults, no behaviour is undefined.
\* ------------------------------------------------------------------------
UniformGroupsRunClean == UniformGroups => Running

UniformGroupsDrainedUsedZero == UniformGroups => C2_DrainedUsedZero

UniformGroupsRoundTripUsed == UniformGroups => C3_RoundTripUsed

UniformGroupsServeThemselves == [][UniformGroups => ServesItself]_vars

UniformGroupsInactiveBelowWasteMax ==
    UniformGroups => C8_InactiveBelowWasteMax

=============================================================================
